---- MODULE Spec2Model ----
(***************************************************************************)
(* The EventBus of event-bus-common (src/unnamed/part_002) as a state      *)
(* machine.  A bus is a record; every public method is a pure operator on  *)
(* that record and an action that applies it.  emit is split at the points *)
(* where it hands control to a handler: between the invocation of a        *)
(* handler and its return, the handler (arbitrary user code) may call any  *)
(* method of any bus, emit included.                                       *)
(***************************************************************************)
EXTENDS Integers, Sequences, FiniteSets, TLC

(* ------------------------------ bounds -------------------------------- *)
\* subscribe calls (on, once, onAny) in one behaviour whose handlers call the bus
MaxSubs == 2
\* subscribe calls in one behaviour whose handlers only return or throw
MaxOrderSubs == 3
\* valid emit calls in one behaviour of Spec and SpecOrder
MaxEmits == 2
\* subscribe calls and valid emit calls in one behaviour of SpecHistory
MaxHistSubs == 1
MaxHistEmits == 3
\* emit passes in flight at once (an emit called by a handler nests)
MaxDepth == 2
\* subscribe calls and emit calls in one behaviour of SpecPass
MaxPassSubs == 3
MaxPassEmits == 1
\* subscribe calls and emit calls in one behaviour of SpecErrors
MaxErrSubs == 3
MaxErrEmits == 2
\* subscribe calls and emit calls in one behaviour of SpecAsync
MaxAsyncSubs == 3
MaxAsyncEmits == 2
\* subscribe calls and emit calls in one behaviour of SpecTwo
MaxTwoSubs == 2
MaxTwoEmits == 2
\* the bridge specification: subscribe calls and emits
MaxBridgeSubs == 3
MaxBridgeEmits == 2
\* the group specification: records made and events emitted
MaxGroupSubs == 4
MaxGroupEmits == 3
\* the state specification: bus subscriptions and state changes
MaxStateSubs == 1
MaxStateEmits == 3

(* ------------------------- values of the model ------------------------ *)
\* EventPriority (src/src/types.ts)
Critical == 0
High == 1
Normal == 2
Low == 3
Priorities == {Critical, High, Normal, Low}

\* the constructor's default for maxHistorySize
DefaultMaxHistorySize == 1000

\* event names: an ordinary one and an integer-like one (an array index as
\* an object key), and two names validateEventName rejects
Names == {"a", "1"}
BlankNames == {"", " "}
\* the names EventManager emits by itself
ManagerEvents == {"@state:change", "@group:created", "@group:updated", "@group:deleted"}
\* every name a bus can have a bucket for
Keys == Names \cup ManagerEvents
\* arguments given as event names that are not strings: a number, an object
NotStrings == {"<number>", "<object>"}
\* handler functions, compared by identity
Handlers == {"h1", "h2"}
\* arguments given as handlers that are not functions
NotFunctions == {"<not a function>"}
\* the arrow functions EventUtils passes to once, one per subscription it makes
Closures == {"closure1", "closure2"}
\* onError callbacks
DefaultErrorHandler == "defaultErrorHandler"
\* event payloads
Data == {1, 2}
\* bus instances
BusIds == {"A", "B"}
\* the arrays a bus can have alive: one per bucket and one per pass in flight
ArrIds == 1..(Cardinality(Names) + MaxDepth)

\* EventFilter objects given to onAny: which predicates are present
Filters == {"event", "data", "both", "timestamp"}
NoFilter == "none"
\* the event predicate of the tests: eventName.startsWith(...)
filterEvent(eventName) == eventName = "a"
\* the data predicate of the tests: data.id > 1
filterData(eventName, data) == data > 1

\* EventManager: the default of maxHistoryLength
DefaultMaxHistoryLength == 1000
\* EventManager: group names, state keys, state values (undefined is what
\* Map.get gives for a key never set), and state listeners
GroupNames == {"g"}
StateKeys == {"k"}
Undefined == "undefined"
StateValues == {"v1", "v2"}
Listeners == {"l1", "l2"}

(* ------------------------------ sequences ----------------------------- *)
Last(s) == s[Len(s)]

\* Array.prototype.findIndex(h => h.handler === handler), 1-based, 0 for -1
findIndex(s, handler) ==
  IF \E k \in 1..Len(s) : s[k].handler = handler
  THEN CHOOSE k \in 1..Len(s) :
         /\ s[k].handler = handler
         /\ \A j \in 1..(k - 1) : s[j].handler # handler
  ELSE 0

\* Array.prototype.splice(index, 1), 1-based; an index past the end removes nothing
splice(s, k) ==
  IF k \in 1..Len(s) THEN SubSeq(s, 1, k - 1) \o SubSeq(s, k + 1, Len(s)) ELSE s

\* Faulty variant: r put ahead of the records of its own priority
InsertAheadOfEqual(s, r) ==
  LET before == {k \in 1..Len(s) : s[k].priority < r.priority}
      n == IF before = {} THEN 0 ELSE CHOOSE k \in before : \A j \in before : j <= k
  IN SubSeq(s, 1, n) \o <<r>> \o SubSeq(s, n + 1, Len(s))

\* r put into the sorted sequence s behind every record that does not sort after it
InsertByPriority(s, r) ==
  LET before == {k \in 1..Len(s) : s[k].priority <= r.priority}
      n == IF before = {} THEN 0 ELSE CHOOSE k \in before : \A j \in before : j <= k
  IN SubSeq(s, 1, n) \o <<r>> \o SubSeq(s, n + 1, Len(s))

RECURSIVE StableSort(_)
StableSort(s) ==
  IF s = <<>> THEN <<>>
  ELSE InsertByPriority(StableSort(SubSeq(s, 1, Len(s) - 1)), s[Len(s)])

\* Faulty variant: the array is left in the order of the push calls
sortSkipped(s) == s

\* Array.prototype.sort((a, b) => a.priority - b.priority), a stable sort
sortHandlersByPriority(s) == StableSort(s)

\* indices.sort((a, b) => b - a)
RECURSIVE SortDescending(_)
SortDescending(s) ==
  IF s = <<>> THEN <<>>
  ELSE LET m == CHOOSE k \in 1..Len(s) : \A j \in 1..Len(s) : s[j] <= s[k]
       IN <<s[m]>> \o SortDescending(splice(s, m))

\* for (const index of indices) array.splice(index, 1)
RECURSIVE SpliceAll(_, _)
SpliceAll(s, indices) ==
  IF indices = <<>> THEN s
  ELSE SpliceAll(splice(s, Head(indices)), Tail(indices))

(* ------------------------------- the bus ------------------------------ *)
\* What the constructor is given.  TRUE stands for true and for an absent
\* option, 0 for a maxHistorySize that is 0 or absent.
CtorOptions(asyncs, catches, empties, sizes) ==
  [asyncEventHandling : asyncs, catchErrors : catches, allowEmptyEvents : empties,
   maxHistorySize : sizes, onError : {DefaultErrorHandler}]

\* new EventBus(options).  keys is the Map's key order, ref the array each
\* key maps to (0: no key), heap the arrays themselves.
NewBus(o) ==
  LET opts == [asyncEventHandling |-> o.asyncEventHandling # FALSE,
               catchErrors |-> o.catchErrors # FALSE,
               onError |-> o.onError,
               allowEmptyEvents |-> o.allowEmptyEvents # FALSE,
               maxHistorySize |-> IF o.maxHistorySize = 0 THEN DefaultMaxHistorySize
                                  ELSE o.maxHistorySize]
  IN [keys |-> <<>>,
      ref |-> [n \in Keys |-> 0],
      heap |-> [a \in ArrIds |-> <<>>],
      wildcardHandlers |-> <<>>,
      options |-> opts,
      errorHandler |-> opts.onError,
      eventHistory |-> <<>>,
      maxHistorySize |-> opts.maxHistorySize]

\* the arrays of B that something still refers to
Refs(B) == {B.ref[n] : n \in Keys} \ {0}

\* a new array: the least identifier neither in the Map nor held by a pass
Alloc(B, pinned) ==
  CHOOSE a \in ArrIds \ (Refs(B) \cup pinned) :
    \A c \in ArrIds \ (Refs(B) \cup pinned) : a <= c

\* arrays nothing refers to any more are dropped
Gc(B, pinned) ==
  [B EXCEPT !.heap = [a \in ArrIds |->
                        IF a \in Refs(B) \cup pinned THEN B.heap[a] ELSE <<>>]]

\* Map.prototype.delete
MapDelete(B, eventName) ==
  [B EXCEPT !.keys = SelectSeq(B.keys, LAMBDA k : k # eventName),
            !.ref[eventName] = 0]

\* Map.prototype.set(eventName, []) for a key the Map does not have
MapSetNew(B, pinned, eventName) ==
  LET a == Alloc(B, pinned)
  IN [B EXCEPT !.keys = Append(B.keys, eventName),
               !.ref[eventName] = a,
               !.heap[a] = <<>>]

validateEventName(eventName) == eventName \notin BlankNames \cup NotStrings

\* the body of on and once behind the validation
Subscribe(B, pinned, eventName, handler, priority, isOnce, id) ==
  LET B1 == IF B.ref[eventName] = 0 THEN MapSetNew(B, pinned, eventName) ELSE B
      a == B1.ref[eventName]
      rec == [handler |-> handler, priority |-> priority, once |-> isOnce, id |-> id]
  IN [B1 EXCEPT !.heap[a] = sortHandlersByPriority(Append(B1.heap[a], rec))]

BusOn(B, pinned, eventName, handler, priority, id) ==
  Subscribe(B, pinned, eventName, handler, priority, FALSE, id)

BusOnce(B, pinned, eventName, handler, priority, id) ==
  Subscribe(B, pinned, eventName, handler, priority, TRUE, id)

\* onAny(handler, options): options is a priority, a filter object or absent
OnAnyOptions ==
  {[type |-> "number", priority |-> p, filter |-> NoFilter] : p \in Priorities}
    \cup {[type |-> "object", priority |-> Normal, filter |-> f] : f \in Filters}
    \cup {[type |-> "undefined", priority |-> Normal, filter |-> NoFilter]}

BusOnAny(B, handler, options, id) ==
  LET priority == IF options.type = "number" THEN options.priority ELSE Normal
      filter == IF options.type = "object" THEN options.filter ELSE NoFilter
      rec == [handler |-> handler, priority |-> priority, once |-> FALSE,
              filter |-> filter, id |-> id]
  IN [B EXCEPT !.wildcardHandlers = sortHandlersByPriority(Append(@, rec))]

\* the unsubscribe of the handle onAny returns
BusUnsubscribeAny(B, handler) ==
  LET index == findIndex(B.wildcardHandlers, handler)
  IN IF index # 0 THEN [B EXCEPT !.wildcardHandlers = splice(@, index)] ELSE B

\* Faulty variant: off(eventName) drops the wildcard subscriptions with the bucket
BusOffAllAndWildcards(B, eventName) ==
  IF B.ref[eventName] = 0 THEN B
  ELSE [MapDelete(B, eventName) EXCEPT !.wildcardHandlers = <<>>]

\* off(eventName) without a handler
BusOffAll(B, eventName) ==
  IF B.ref[eventName] = 0 THEN B ELSE MapDelete(B, eventName)

\* Faulty variant: off(eventName, handler) removes every record of the handler
BusOffEveryRecord(B, eventName, handler) ==
  IF B.ref[eventName] = 0 THEN B
  ELSE LET a == B.ref[eventName]
           kept == SelectSeq(B.heap[a], LAMBDA r : r.handler # handler)
       IN IF Len(kept) = 0 THEN MapDelete(B, eventName)
          ELSE [B EXCEPT !.heap[a] = kept]

\* off(eventName, handler)
BusOff(B, eventName, handler) ==
  IF B.ref[eventName] = 0 THEN B
  ELSE LET a == B.ref[eventName]
           index == findIndex(B.heap[a], handler)
           B1 == IF index # 0 THEN [B EXCEPT !.heap[a] = splice(@, index)] ELSE B
       IN IF Len(B1.heap[a]) = 0 THEN MapDelete(B1, eventName) ELSE B1

\* Faulty variant: the wildcard records stay
BusClearKeepsWildcards(B) ==
  [B EXCEPT !.keys = <<>>, !.ref = [n \in Keys |-> 0]]

BusClear(B) ==
  [B EXCEPT !.keys = <<>>, !.ref = [n \in Keys |-> 0], !.wildcardHandlers = <<>>]

BusClearHistory(B) == [B EXCEPT !.eventHistory = <<>>]

\* Faulty variant: on overflow the entry just pushed is the one dropped
recordEventDropsNewest(B, event, data, now) ==
  LET pushed == Append(B.eventHistory, [event |-> event, data |-> data, timestamp |-> now])
  IN [B EXCEPT !.eventHistory =
        IF Len(pushed) > B.maxHistorySize THEN B.eventHistory ELSE pushed]

\* Faulty variant: an event nobody listens to is not recorded
recordEventWhenListened(B, event, data, now) ==
  LET pushed == Append(B.eventHistory, [event |-> event, data |-> data, timestamp |-> now])
  IN IF (B.ref[event] = 0 \/ Len(B.heap[B.ref[event]]) = 0) /\ Len(B.wildcardHandlers) = 0
     THEN B
     ELSE [B EXCEPT !.eventHistory =
             IF Len(pushed) > B.maxHistorySize THEN Tail(pushed) ELSE pushed]

recordEvent(B, event, data, now) ==
  LET pushed == Append(B.eventHistory, [event |-> event, data |-> data, timestamp |-> now])
  IN [B EXCEPT !.eventHistory =
        IF Len(pushed) > B.maxHistorySize THEN Tail(pushed) ELSE pushed]

(* ------------------------------- queries ------------------------------ *)
Bucket(B, eventName) ==
  IF B.ref[eventName] = 0 THEN <<>> ELSE B.heap[B.ref[eventName]]

\* Faulty variant: the functions subscribed are counted, not the records
listenerCountOfFunctions(B, eventName) ==
  IF B.ref[eventName] = 0 THEN 0
  ELSE Cardinality({B.heap[B.ref[eventName]][k].handler :
                      k \in 1..Len(B.heap[B.ref[eventName]])})

listenerCount(B, eventName) ==
  IF B.ref[eventName] = 0 THEN 0 ELSE Len(B.heap[B.ref[eventName]])

eventNames(B) == B.keys

wildcardListenerCount(B) == Len(B.wildcardHandlers)

\* Faulty variant: a bucket counts as listeners even when it is empty
hasListenersOfAnyBucket(B, eventName) ==
  \/ B.ref[eventName] # 0
  \/ Len(B.wildcardHandlers) > 0

hasListeners(B, eventName) ==
  \/ (B.ref[eventName] # 0 /\ Len(B.heap[B.ref[eventName]]) > 0)
  \/ Len(B.wildcardHandlers) > 0

getHistory(B) == B.eventHistory

getState(B) ==
  LET RECURSIVE Sum(_)
      Sum(ks) == IF ks = <<>> THEN 0 ELSE listenerCount(B, Head(ks)) + Sum(Tail(ks))
  IN [eventCount |-> Len(B.keys),
      totalListeners |-> Sum(B.keys),
      historySize |-> Len(B.eventHistory),
      options |-> B.options]

(* ------------------------------ snapshots ----------------------------- *)
\* The keys of a plain object enumerate integer-like keys first, in
\* ascending numeric order, then the other keys in insertion order.
IndexKeyValue(k) == IF k = "1" THEN 1 ELSE -1
IsIndexKey(k) == IndexKeyValue(k) >= 0

RECURSIVE SortIndexKeys(_)
SortIndexKeys(ks) ==
  IF ks = <<>> THEN <<>>
  ELSE LET m == CHOOSE k \in 1..Len(ks) :
                  \A j \in 1..Len(ks) : IndexKeyValue(ks[k]) <= IndexKeyValue(ks[j])
       IN <<ks[m]>> \o SortIndexKeys(splice(ks, m))

\* Object.fromEntries(entries): the keys as Object.entries will list them
ObjectKeys(ks) ==
  SortIndexKeys(SelectSeq(ks, IsIndexKey)) \o SelectSeq(ks, LAMBDA k : ~IsIndexKey(k))

getSnapshot(B) ==
  [eventNames |-> B.keys,
   listenerKeys |-> ObjectKeys(B.keys),
   listenerCounts |-> [n \in Keys |-> listenerCount(B, n)],
   wildcardListenerCount |-> Len(B.wildcardHandlers),
   history |-> B.eventHistory,
   options |-> B.options]

RECURSIVE RestoreKeys(_, _, _, _)
RestoreKeys(B, pinned, s, ks) ==
  IF ks = <<>> THEN B
  ELSE LET n == Head(ks)
       IN RestoreKeys(IF s.listenerCounts[n] > 0 THEN MapSetNew(B, pinned, n) ELSE B,
                      pinned, s, Tail(ks))

restoreFromSnapshot(B, pinned, s) ==
  LET B1 == [BusClear(B) EXCEPT !.options = s.options, !.eventHistory = s.history]
  IN RestoreKeys(B1, pinned, s, s.listenerKeys)

(* --------------------------- the parts of emit ------------------------- *)
\* emit's rejection of an event nobody listens to (a throw before any handler)
EmitRejects(B, handlers) ==
  /\ ~B.options.allowEmptyEvents
  /\ Len(handlers) = 0
  /\ Len(B.wildcardHandlers) = 0

\* the filter test of the wildcard loop: the record is not skipped
FilterPasses(rec, eventName, data) ==
  /\ rec.filter \in {"event", "both"} => filterEvent(eventName)
  /\ rec.filter \in {"data", "both"} => filterData(eventName, data)

\* Faulty variant: every predicate the filter has is called
FilterEvaluatesEvery(rec, eventName, data) ==
  IF rec.filter = "both" THEN <<"event", "data">>
  ELSE IF rec.filter \in {"event", "data"} THEN <<rec.filter>>
  ELSE <<>>

\* the predicates of rec's filter that the test calls, in the order it calls
\* them: the data predicate is not reached when the event predicate rejects
FilterEvaluates(rec, eventName, data) ==
  IF rec.filter \in {"event", "both"}
  THEN IF filterEvent(eventName) /\ rec.filter = "both"
       THEN <<"event", "data">>
       ELSE <<"event">>
  ELSE IF rec.filter = "data" THEN <<"data">> ELSE <<>>

\* the predicate calls of the wildcard loop over the records from..to of the clone
RECURSIVE Evaluations(_, _, _)
Evaluations(f, from, to) ==
  IF from > to THEN <<>>
  ELSE LET rec == f.clonedWildcardHandlers[from]
           ps == FilterEvaluates(rec, f.eventName, f.data)
       IN [k \in 1..Len(ps) |-> [id |-> rec.id, predicate |-> ps[k]]]
            \o Evaluations(f, from + 1, to)

\* a once record about to be invoked: its index in the live array is noted
CollectOnce(indices, live, rec) ==
  IF rec.once /\ findIndex(live, rec.handler) # 0
  THEN Append(indices, findIndex(live, rec.handler))
  ELSE indices

\* the removal of the once records behind the two loops
Prune(B, f) ==
  LET B1 == [B EXCEPT
               !.heap[f.handlers] = SpliceAll(@, SortDescending(f.onceHandlerIndices)),
               !.wildcardHandlers = SpliceAll(@, SortDescending(f.onceWildcardIndices))]
  IN IF Len(B1.heap[f.handlers]) = 0 /\ B1.ref[f.eventName] # 0
     THEN MapDelete(B1, f.eventName)
     ELSE B1

\* Faulty variant: Promise.all is returned also when no promise was collected
EmitResultAlwaysJoin(B, f) ==
  IF B.options.asyncEventHandling THEN "join" ELSE "void"

\* Faulty variant: the promise settles only when every operation has settled
PromiseAllWaits(j, k, outcome) ==
  LET ops == [j.ops EXCEPT ![k] = outcome]
  IN [ops |-> ops,
      remaining |-> j.remaining - 1,
      state |-> IF \E m \in 1..Len(ops) : ops[m] = "pending" THEN "pending"
                ELSE IF \E m \in 1..Len(ops) : ops[m] = "rejected" THEN "rejected"
                ELSE "fulfilled"]

\* Promise.all(handlerPromises), when the k-th promise it was given settles:
\* a rejection rejects the promise it returned, the last fulfilment fulfils
\* it, and a settled promise does not change
PromiseAll(j, k, outcome) ==
  LET ops == [j.ops EXCEPT ![k] = outcome]
  IN IF outcome = "rejected"
     THEN [ops |-> ops,
           remaining |-> j.remaining,
           state |-> IF j.state = "pending" THEN "rejected" ELSE j.state]
     ELSE [ops |-> ops,
           remaining |-> j.remaining - 1,
           state |-> IF j.state = "pending" /\ j.remaining = 1 THEN "fulfilled"
                     ELSE j.state]

\* what a completed emit returns
EmitResult(B, f) ==
  IF B.options.asyncEventHandling /\ f.handlerPromises > 0 THEN "join" ELSE "void"

(* ------------------------------ the state ----------------------------- *)
VARIABLES
  bus,        \* the bus instances
  stack,      \* the emit passes in flight, innermost first
  snap,       \* the snapshot the caller holds: <<>> or <<snapshot>>
  nextId,     \* the number the next subscribe call gives its record
  clock,      \* Date.now(), advanced by every recorded event
  ret,        \* how the last finished call ended
  handles,    \* the subscription handles returned so far
  onceFired,  \* the once records invoked so far
  refired,    \* the once records invoked by more than one emit
  emitted,    \* per bus, the events recorded since its history was last reset
  joinHandle, \* the promise the latest emit returned: <<>> or <<promise>>
  shared,     \* the pairs of holders whose history is one and the same array
  bridge,     \* the promise EventUtils has built on bus A: <<>> or <<bridge>>
  manager     \* the EventManager whose eventBus is bus A

vars ==
  <<bus, stack, snap, nextId, clock, ret, handles, onceFired, refired, emitted, joinHandle, shared, bridge, manager>>

\* a finished call: the method, the event name it was given, how it ended
Result(op, eventName, out) == [op |-> op, eventName |-> eventName, out |-> out]

\* the arrays of bus b that the passes in flight hold
Pinned(st, b) == {st[k].handlers : k \in {j \in 1..Len(st) : st[j].b = b}}

\* a method can be called by the program when no pass is in flight, and by
\* the handler that is running otherwise
CanCall == IF stack = <<>> THEN TRUE ELSE Head(stack).cur # "none"

\* a call made by the program itself, not by a handler
TopLevel == stack = <<>>

Put(b, B, st) == bus' = [bus EXCEPT ![b] = Gc(B, Pinned(st, b))]

\* what can hold a history array: the buses and the snapshot the caller holds
Holders == BusIds \cup {"snapshot"}

\* this.eventHistory = [] and the like: holder gets an array nobody else holds
NewArray(sh, holder) == {p \in sh : holder \notin p}

\* Faulty variant: the source's array itself is handed over
SpreadKeepsArray(sh, holder, source) ==
  NewArray(sh, holder)
    \cup {{holder, x} : x \in {source} \cup {y \in Holders : {source, y} \in sh}}

\* [...array]: holder gets a new array with the elements of the source's
Spread(sh, holder, source) == NewArray(sh, holder)

\* bus b after a call that pushed to its history: an array is changed in
\* place, so every holder of the same array sees the change
PutShared(b, B, st) ==
  /\ bus' = [x \in BusIds |->
               IF x = b THEN Gc(B, Pinned(st, b))
               ELSE IF {x, b} \in shared
                    THEN [bus[x] EXCEPT !.eventHistory = B.eventHistory]
                    ELSE bus[x]]
  /\ snap' = IF snap # <<>> /\ {"snapshot", b} \in shared
             THEN <<[snap[1] EXCEPT !.history = B.eventHistory]>>
             ELSE snap

InitBuses(optsA, optsB) ==
  /\ \E oa \in optsA, ob \in optsB : bus = [b \in BusIds |-> IF b = "A" THEN NewBus(oa) ELSE NewBus(ob)]
  /\ stack = <<>>
  /\ snap = <<>>
  /\ nextId = 1
  /\ clock = 0
  /\ ret = Result("new", "", "void")
  /\ handles = {}
  /\ onceFired = {}
  /\ refired = {}
  /\ emitted = [b \in BusIds |-> <<>>]
  /\ joinHandle = <<>>
  /\ shared = {}
  /\ bridge = <<>>

\* the state after construction when no EventManager has been constructed
InitWith(optsA, optsB) == InitBuses(optsA, optsB) /\ manager = <<>>

(* ----------------------------- subscribing ---------------------------- *)
\* Faulty variant: whatever is given as the handler is accepted
validateHandlerSkipped(handler) == TRUE

validateHandler(handler) == handler \in Handlers \cup Closures

SubscribeCall(b, eventName, handler, priority, isOnce) ==
  /\ CanCall
  /\ IF ~validateEventName(eventName) \/ ~validateHandler(handler)
     THEN /\ ret' = Result(IF isOnce THEN "once" ELSE "on", eventName, "InvalidArgument")
          /\ UNCHANGED <<bus, stack, snap, nextId, clock, handles, onceFired, refired, emitted, joinHandle, shared, bridge, manager>>
     ELSE /\ Put(b, IF isOnce
                    THEN BusOnce(bus[b], Pinned(stack, b), eventName, handler, priority, nextId)
                    ELSE BusOn(bus[b], Pinned(stack, b), eventName, handler, priority, nextId),
                 stack)
          /\ handles' = handles \cup {[b |-> b, kind |-> "named", eventName |-> eventName,
                                       handler |-> handler, id |-> nextId]}
          /\ nextId' = nextId + 1
          /\ ret' = Result(IF isOnce THEN "once" ELSE "on", eventName, "void")
          /\ UNCHANGED <<stack, snap, clock, onceFired, refired, emitted, joinHandle, shared, bridge, manager>>

On(b, eventName, handler, priority) == SubscribeCall(b, eventName, handler, priority, FALSE)

Once(b, eventName, handler, priority) == SubscribeCall(b, eventName, handler, priority, TRUE)

OnAny(b, handler, options) ==
  /\ CanCall
  /\ IF ~validateHandler(handler)
     THEN /\ ret' = Result("onAny", "", "InvalidArgument")
          /\ UNCHANGED <<bus, stack, snap, nextId, clock, handles, onceFired, refired, emitted, joinHandle, shared, bridge, manager>>
     ELSE /\ Put(b, BusOnAny(bus[b], handler, options, nextId), stack)
          /\ handles' = handles \cup {[b |-> b, kind |-> "any", eventName |-> "",
                                       handler |-> handler, id |-> nextId]}
          /\ nextId' = nextId + 1
          /\ ret' = Result("onAny", "", "void")
          /\ UNCHANGED <<stack, snap, clock, onceFired, refired, emitted, joinHandle, shared, bridge, manager>>

Off(b, eventName, handler) ==
  /\ CanCall
  /\ IF ~validateEventName(eventName)
     THEN /\ ret' = Result("off", eventName, "InvalidArgument")
          /\ UNCHANGED bus
     ELSE /\ Put(b, BusOff(bus[b], eventName, handler), stack)
          /\ ret' = Result("off", eventName, "void")
  /\ UNCHANGED <<stack, snap, nextId, clock, handles, onceFired, refired, emitted, joinHandle, shared, bridge, manager>>

OffAll(b, eventName) ==
  /\ CanCall
  /\ IF ~validateEventName(eventName)
     THEN /\ ret' = Result("offAll", eventName, "InvalidArgument")
          /\ UNCHANGED bus
     ELSE /\ Put(b, BusOffAll(bus[b], eventName), stack)
          /\ ret' = Result("offAll", eventName, "void")
  /\ UNCHANGED <<stack, snap, nextId, clock, handles, onceFired, refired, emitted, joinHandle, shared, bridge, manager>>

\* handle.unsubscribe() of a handle some subscribe call returned
HandleUnsubscribe(hd) ==
  /\ CanCall
  /\ hd \in handles
  /\ Put(hd.b, IF hd.kind = "named"
               THEN BusOff(bus[hd.b], hd.eventName, hd.handler)
               ELSE BusUnsubscribeAny(bus[hd.b], hd.handler),
         stack)
  /\ ret' = Result("unsubscribe", hd.eventName, "void")
  /\ UNCHANGED <<stack, snap, nextId, clock, handles, onceFired, refired, emitted, joinHandle, shared, bridge, manager>>

Clear(b) ==
  /\ CanCall
  /\ Put(b, BusClear(bus[b]), stack)
  /\ ret' = Result("clear", "", "void")
  /\ UNCHANGED <<stack, snap, nextId, clock, handles, onceFired, refired, emitted, joinHandle, shared, bridge, manager>>

ClearHistory(b) ==
  /\ CanCall
  /\ Put(b, BusClearHistory(bus[b]), stack)
  /\ ret' = Result("clearHistory", "", "void")
  /\ emitted' = [emitted EXCEPT ![b] = <<>>]
  /\ shared' = NewArray(shared, b)
  /\ UNCHANGED <<stack, snap, nextId, clock, handles, onceFired, refired, joinHandle, bridge, manager>>

\* Faulty variant: the snapshot is given the history array of the bus itself
GetSnapshotKeepsArray(b) ==
  /\ CanCall
  /\ snap' = <<getSnapshot(bus[b])>>
  /\ shared' = SpreadKeepsArray(shared, "snapshot", b)
  /\ ret' = Result("getSnapshot", "", "void")
  /\ UNCHANGED <<bus, stack, nextId, clock, handles, onceFired, refired, emitted, joinHandle, bridge, manager>>

GetSnapshot(b) ==
  /\ CanCall
  /\ snap' = <<getSnapshot(bus[b])>>
  /\ shared' = Spread(shared, "snapshot", b)
  /\ ret' = Result("getSnapshot", "", "void")
  /\ UNCHANGED <<bus, stack, nextId, clock, handles, onceFired, refired, emitted, joinHandle, bridge, manager>>

RestoreFromSnapshot(b) ==
  /\ CanCall
  /\ snap # <<>>
  /\ Put(b, restoreFromSnapshot(bus[b], Pinned(stack, b), snap[1]), stack)
  /\ ret' = Result("restoreFromSnapshot", "", "void")
  /\ emitted' = [emitted EXCEPT ![b] = snap[1].history]
  /\ shared' = Spread(shared, b, "snapshot")
  /\ UNCHANGED <<stack, snap, nextId, clock, handles, onceFired, refired, joinHandle, bridge, manager>>

(* -------------------------------- emit -------------------------------- *)
\* emit behind its validation and up to its first handler: history, the
\* empty-event check and the two clones.  B0 is the bus as the caller's
\* statements ahead of the emit have left it.
EmitFrom(b, B0, eventName, data) ==
  /\ clock' = clock + 1
  /\ emitted' = [emitted EXCEPT ![b] = Append(@, [event |-> eventName, data |-> data,
                                                  timestamp |-> clock + 1])]
  /\ LET B == recordEvent(B0, eventName, data, clock + 1)
         a == IF B.ref[eventName] = 0 THEN Alloc(B, Pinned(stack, b))
              ELSE B.ref[eventName]
         handlers == IF B.ref[eventName] = 0 THEN <<>> ELSE B.heap[a]
         f == [b |-> b, eventName |-> eventName, data |-> data,
               handlers |-> a,
               clonedHandlers |-> handlers,
               clonedWildcardHandlers |-> B.wildcardHandlers,
               i |-> 1, w |-> 1, cur |-> "none",
               onceHandlerIndices |-> <<>>, onceWildcardIndices |-> <<>>,
               handlerPromises |-> 0, returnedPromise |-> <<>>,
               invoked |-> <<>>, errors |-> <<>>, evaluated |-> <<>>]
     IN IF EmitRejects(B, handlers)
        THEN /\ PutShared(b, B, stack)
             /\ ret' = Result("emit", eventName, "NoSubscribers")
             /\ UNCHANGED stack
        ELSE /\ stack' = <<f>> \o stack
             /\ PutShared(b, B, stack')
             /\ UNCHANGED ret
  /\ UNCHANGED <<nextId, handles, onceFired, refired, joinHandle, shared, bridge>>

\* emit of bus b as the bus is when the call is made
EmitStart(b, eventName, data) == EmitFrom(b, bus[b], eventName, data)

\* Faulty variant: the event is recorded before its name is validated
EmitBeginRecordsFirst(b, eventName, data) ==
  /\ CanCall
  /\ IF ~validateEventName(eventName)
     THEN /\ clock' = clock + 1
          /\ PutShared(b, recordEvent(bus[b], eventName, data, clock + 1), stack)
          /\ ret' = Result("emit", eventName, "InvalidArgument")
          /\ UNCHANGED <<stack, nextId, handles, onceFired, refired, emitted, joinHandle, shared, bridge, manager>>
     ELSE EmitStart(b, eventName, data) /\ UNCHANGED manager

\* emit: an invalid name is rejected before anything else happens
EmitBegin(b, eventName, data) ==
  /\ CanCall
  /\ IF ~validateEventName(eventName)
     THEN /\ ret' = Result("emit", eventName, "InvalidArgument")
          /\ UNCHANGED <<bus, stack, snap, nextId, clock, handles, onceFired, refired, emitted, joinHandle, shared, bridge, manager>>
     ELSE EmitStart(b, eventName, data) /\ UNCHANGED manager

\* Faulty variant: a record the filter rejects ends the wildcard loop
PassingUntilRejected(f) ==
  {k \in f.w..Len(f.clonedWildcardHandlers) :
     \A j \in f.w..k : FilterPasses(f.clonedWildcardHandlers[j], f.eventName, f.data)}

\* the wildcard records of the clone, from position w on, that the filter lets through
Passing(f) ==
  {k \in f.w..Len(f.clonedWildcardHandlers) :
     FilterPasses(f.clonedWildcardHandlers[k], f.eventName, f.data)}

Invocation(kind, rec) ==
  [kind |-> kind, id |-> rec.id, handler |-> rec.handler,
   priority |-> rec.priority, once |-> rec.once]

\* Faulty variant: the named loop walks the live bucket
LoopLiveHandlers(f, live) == live

\* the array the named loop walks: the clone taken when the pass began
LoopHandlers(f, live) == f.clonedHandlers

\* the named loop reaches its next record and calls the handler
InvokeNamed ==
  /\ stack # <<>>
  /\ LET f == Head(stack)
         B == bus[f.b]
         walked == LoopHandlers(f, B.heap[f.handlers])
     IN /\ f.cur = "none"
        /\ f.i <= Len(walked)
        /\ LET rec == walked[f.i]
           IN /\ stack' = <<[f EXCEPT
                               !.cur = "named",
                               !.onceHandlerIndices = CollectOnce(@, B.heap[f.handlers], rec),
                               !.invoked = Append(@, Invocation("named", rec))]>>
                             \o Tail(stack)
              /\ onceFired' = IF rec.once THEN onceFired \cup {rec.id} ELSE onceFired
              /\ refired' = IF rec.once /\ rec.id \in onceFired
                            THEN refired \cup {rec.id} ELSE refired
  /\ UNCHANGED <<bus, snap, nextId, clock, ret, handles, emitted, joinHandle, shared, bridge, manager>>

\* Faulty variant: the wildcard loop does not wait for the named loop to end
InvokeWildcardEarly ==
  /\ stack # <<>>
  /\ LET f == Head(stack)
         B == bus[f.b]
     IN /\ f.cur = "none"
        /\ Passing(f) # {}
        /\ LET k == CHOOSE k \in Passing(f) : \A j \in Passing(f) : k <= j
               rec == f.clonedWildcardHandlers[k]
           IN /\ stack' = <<[f EXCEPT
                               !.cur = "wildcard",
                               !.w = k,
                               !.onceWildcardIndices = CollectOnce(@, B.wildcardHandlers, rec),
                               !.invoked = Append(@, Invocation("wildcard", rec))]>>
                             \o Tail(stack)
              /\ onceFired' = IF rec.once THEN onceFired \cup {rec.id} ELSE onceFired
              /\ refired' = IF rec.once /\ rec.id \in onceFired
                            THEN refired \cup {rec.id} ELSE refired
  /\ UNCHANGED <<bus, snap, nextId, clock, ret, handles, emitted, joinHandle, shared, bridge, manager>>

\* the wildcard loop skips the records its filter rejects and calls the next handler
InvokeWildcard ==
  /\ stack # <<>>
  /\ LET f == Head(stack)
         B == bus[f.b]
     IN /\ f.cur = "none"
        /\ f.i > Len(f.clonedHandlers)
        /\ Passing(f) # {}
        /\ LET k == CHOOSE k \in Passing(f) : \A j \in Passing(f) : k <= j
               rec == f.clonedWildcardHandlers[k]
           IN /\ stack' = <<[f EXCEPT
                               !.cur = "wildcard",
                               !.w = k,
                               !.onceWildcardIndices = CollectOnce(@, B.wildcardHandlers, rec),
                               !.invoked = Append(@, Invocation("wildcard", rec)),
                               !.evaluated = @ \o Evaluations(f, f.w, k)]>>
                             \o Tail(stack)
              /\ onceFired' = IF rec.once THEN onceFired \cup {rec.id} ELSE onceFired
              /\ refired' = IF rec.once /\ rec.id \in onceFired
                            THEN refired \cup {rec.id} ELSE refired
  /\ UNCHANGED <<bus, snap, nextId, clock, ret, handles, emitted, joinHandle, shared, bridge, manager>>

\* Faulty variant: the loops end at the first handler that returns a promise
AdvanceStopsAtPromise(f) ==
  IF f.returnedPromise # <<>> /\ Last(f.returnedPromise) = Last(f.invoked).id
  THEN [f EXCEPT !.cur = "none",
                 !.i = Len(f.clonedHandlers) + 1,
                 !.w = Len(f.clonedWildcardHandlers) + 1]
  ELSE [f EXCEPT !.cur = "none",
                 !.i = IF f.cur = "named" THEN @ + 1 ELSE @,
                 !.w = IF f.cur = "wildcard" THEN @ + 1 ELSE @]

\* the loop moves past the handler that has returned
Advance(f) ==
  [f EXCEPT !.cur = "none",
            !.i = IF f.cur = "named" THEN @ + 1 ELSE @,
            !.w = IF f.cur = "wildcard" THEN @ + 1 ELSE @]

\* the running handler returns; a promise is queued when async handling is on
HandlerReturns(promise) ==
  /\ stack # <<>>
  /\ LET f == Head(stack)
         B == bus[f.b]
         f1 == IF promise /\ B.options.asyncEventHandling
               THEN [f EXCEPT !.handlerPromises = @ + 1] ELSE f
         f2 == IF promise
               THEN [f1 EXCEPT !.returnedPromise = Append(@, Last(f.invoked).id)] ELSE f1
     IN /\ f.cur # "none"
        /\ stack' = <<Advance(f2)>> \o Tail(stack)
  /\ UNCHANGED <<bus, snap, nextId, clock, ret, handles, onceFired, refired, emitted, joinHandle, shared, bridge, manager>>

\* Faulty variant: a caught error ends both loops
HandlerThrowsAborts ==
  /\ stack # <<>>
  /\ LET f == Head(stack)
         B == bus[f.b]
     IN /\ f.cur # "none"
        /\ IF B.options.catchErrors
           THEN /\ stack' = <<[f EXCEPT
                                 !.cur = "none",
                                 !.i = Len(f.clonedHandlers) + 1,
                                 !.w = Len(f.clonedWildcardHandlers) + 1,
                                 !.errors = Append(@, [to |-> B.errorHandler,
                                                       event |-> f.eventName,
                                                       from |-> f.invoked[Len(f.invoked)].id])]>>
                               \o Tail(stack)
                /\ UNCHANGED <<bus, ret>>
           ELSE /\ stack' = Tail(stack)
                /\ Put(f.b, B, Tail(stack))
                /\ ret' = Result("emit", f.eventName, "HandlerError")
  /\ UNCHANGED <<snap, nextId, clock, handles, onceFired, refired, emitted, joinHandle, shared, bridge, manager>>

\* Faulty variant: the error goes to the error handler whatever catchErrors says
HandlerThrowsAlwaysCaught ==
  /\ stack # <<>>
  /\ LET f == Head(stack)
         B == bus[f.b]
     IN /\ f.cur # "none"
        /\ stack' = <<[Advance(f) EXCEPT
                         !.errors = Append(@, [to |-> B.errorHandler,
                                               event |-> f.eventName,
                                               from |-> f.invoked[Len(f.invoked)].id])]>>
                       \o Tail(stack)
  /\ UNCHANGED <<bus, ret, snap, nextId, clock, handles, onceFired, refired, emitted, joinHandle, shared, bridge, manager>>

\* the running handler throws: the error goes to the error handler, or out of emit
HandlerThrows ==
  /\ stack # <<>>
  /\ LET f == Head(stack)
         B == bus[f.b]
     IN /\ f.cur # "none"
        /\ IF B.options.catchErrors
           THEN /\ stack' = <<[Advance(f) EXCEPT
                                 !.errors = Append(@, [to |-> B.errorHandler,
                                                       event |-> f.eventName,
                                                       from |-> f.invoked[Len(f.invoked)].id])]>>
                               \o Tail(stack)
                /\ UNCHANGED <<bus, ret>>
           ELSE /\ stack' = Tail(stack)
                /\ Put(f.b, B, Tail(stack))
                /\ ret' = Result("emit", f.eventName, "HandlerError")
  /\ UNCHANGED <<snap, nextId, clock, handles, onceFired, refired, emitted, joinHandle, shared, bridge, manager>>

\* both loops are done: the once records go, and emit returns
EmitReturn ==
  /\ stack # <<>>
  /\ LET f == Head(stack)
         B == bus[f.b]
     IN /\ f.cur = "none"
        /\ f.i > Len(f.clonedHandlers)
        /\ Passing(f) = {}
        /\ stack' = Tail(stack)
        /\ Put(f.b, Prune(B, f), Tail(stack))
        /\ ret' = Result("emit", f.eventName, EmitResult(B, f))
        /\ joinHandle' = IF EmitResult(B, f) = "join"
                         THEN <<[ops |-> [k \in 1..f.handlerPromises |-> "pending"],
                                 remaining |-> f.handlerPromises,
                                 state |-> "pending"]>>
                         ELSE joinHandle
  /\ UNCHANGED <<snap, nextId, clock, handles, onceFired, refired, emitted, shared, bridge, manager>>

\* a promise a handler returned settles, and Promise.all reacts; promise
\* reactions run when no call is on the stack
PromiseSettles(k, outcome) ==
  /\ stack = <<>>
  /\ joinHandle # <<>>
  /\ k \in 1..Len(joinHandle[1].ops)
  /\ joinHandle[1].ops[k] = "pending"
  /\ joinHandle' = <<PromiseAll(joinHandle[1], k, outcome)>>
  /\ UNCHANGED <<bus, stack, snap, nextId, clock, ret, handles, onceFired, refired, emitted, shared, bridge, manager>>

\* the pass on top of the stack has run both loops to their end
Finished(f) ==
  /\ f.cur = "none"
  /\ f.i > Len(f.clonedHandlers)
  /\ Passing(f) = {}

(* ------------------------ EventUtils: the bridges --------------------- *)
\* eventNames.forEach(eventName => subscriptions.push(eventBus.once(eventName,
\* closure))): the k-th subscription gets the k-th closure; once throws at a
\* name it rejects, and the names behind it are not reached
RECURSIVE OnceEach(_, _, _, _, _)
OnceEach(B, pinned, names, k, id) ==
  IF k > Len(names)
  THEN [bus |-> B, subscriptions |-> <<>>, threw |-> FALSE]
  ELSE IF ~validateEventName(names[k])
  THEN [bus |-> B, subscriptions |-> <<>>, threw |-> TRUE]
  ELSE LET handler == IF k = 1 THEN "closure1" ELSE "closure2"
           rest == OnceEach(BusOnce(B, pinned, names[k], handler, Normal, id),
                            pinned, names, k + 1, id + 1)
       IN [rest EXCEPT !.subscriptions =
             <<[eventName |-> names[k], handler |-> handler, id |-> id]>> \o @]

\* subscriptions.forEach(sub => sub.unsubscribe())
RECURSIVE UnsubscribeEach(_, _)
UnsubscribeEach(B, subscriptions) ==
  IF subscriptions = <<>> THEN B
  ELSE UnsubscribeEach(BusOff(B, Head(subscriptions).eventName, Head(subscriptions).handler),
                       Tail(subscriptions))

\* resolve or reject of a promise: only the first call settles it
Settle(p, state, with) ==
  [p EXCEPT !.promise = IF @ = "pending" THEN state ELSE @,
            !.with = IF p.promise = "pending" THEN with ELSE @,
            !.settles = @ + 1]

\* clearTimeout(timeoutId) behind its null test
ClearTimeout(p) == [p EXCEPT !.timeoutId = IF @ = "armed" THEN "cleared" ELSE @]

\* new Promise(executor) of the three bridges.  The timer of waitForAny and
\* waitForAll is set before the subscriptions are made, the timer of
\* eventToPromise behind them; an executor that throws rejects the promise.
Bridge(kind, names, timeout) ==
  /\ TopLevel
  /\ bridge = <<>>
  /\ LET made == OnceEach(bus["A"], Pinned(stack, "A"), names, 1, nextId)
         timerFirst == kind # "eventToPromise"
         p == [kind |-> kind,
               subscriptions |-> made.subscriptions,
               isDone |-> FALSE,
               pendingEvents |-> {names[k] : k \in 1..Len(names)},
               timeoutId |-> IF timeout /\ (timerFirst \/ ~made.threw) THEN "armed" ELSE "null",
               promise |-> "pending", with |-> "", settles |-> 0]
     IN /\ Put("A", made.bus, stack)
        /\ nextId' = nextId + Len(made.subscriptions)
        /\ bridge' = <<IF made.threw THEN Settle(p, "rejected", "InvalidArgument") ELSE p>>
        /\ ret' = Result(kind, "", "promise")
  /\ UNCHANGED <<stack, snap, clock, handles, onceFired, refired, emitted, joinHandle, shared, manager>>

\* EventUtils.eventToPromise(eventBus, successEvent, errorEvent, timeout)
EventToPromise(successEvent, errorEvent, timeout) ==
  Bridge("eventToPromise",
         IF errorEvent = "" THEN <<successEvent>> ELSE <<successEvent, errorEvent>>,
         timeout)

\* EventUtils.waitForAny(eventBus, names, timeout) of a non-empty array
WaitForAny(names, timeout) ==
  names # <<>> /\ Bridge("waitForAny", names, timeout)

\* EventUtils.waitForAll(eventBus, names, timeout) of a non-empty array
WaitForAll(names, timeout) ==
  names # <<>> /\ Bridge("waitForAll", names, timeout)

\* the handler that is running
Running == Last(Head(stack).invoked).handler

\* what a closure of the bridge does when the pass calls it
ClosureBody(p, B, f) ==
  CASE p.kind = "eventToPromise" ->
         [bus |-> UnsubscribeEach(B, p.subscriptions),
          bridge |-> Settle(ClearTimeout(p),
                            IF Running = "closure1" THEN "resolved" ELSE "rejected",
                            f.eventName)]
    [] p.kind = "waitForAny" ->
         IF p.isDone THEN [bus |-> B, bridge |-> p]
         ELSE [bus |-> UnsubscribeEach(B, p.subscriptions),
               bridge |-> Settle(ClearTimeout([p EXCEPT !.isDone = TRUE]),
                                 "resolved", f.eventName)]
    [] p.kind = "waitForAll" ->
         LET q == [p EXCEPT !.pendingEvents = @ \ {f.eventName}]
         IN [bus |-> B,
             bridge |-> IF q.pendingEvents = {}
                        THEN Settle(ClearTimeout(q), "resolved", "results") ELSE q]

\* the pass has called a closure of the bridge: the closure runs and returns
ClosureRuns ==
  /\ stack # <<>>
  /\ bridge # <<>>
  /\ LET f == Head(stack)
     IN /\ f.cur # "none"
        /\ Running \in Closures
        /\ LET done == ClosureBody(bridge[1], bus[f.b], f)
           IN /\ stack' = <<Advance(f)>> \o Tail(stack)
              /\ Put(f.b, done.bus, stack')
              /\ bridge' = <<done.bridge>>
  /\ UNCHANGED <<snap, nextId, clock, ret, handles, onceFired, refired, emitted, joinHandle, shared, manager>>

\* what the timer callback of the bridge does
TimeoutBody(p, B) ==
  IF p.kind = "waitForAny" /\ p.isDone THEN [bus |-> B, bridge |-> p]
  ELSE [bus |-> UnsubscribeEach(B, p.subscriptions),
        bridge |-> Settle([p EXCEPT !.isDone = IF p.kind = "waitForAny" THEN TRUE ELSE @],
                          "rejected", "timeout")]

\* the timer of the bridge fires; timers fire when no call is on the stack
TimeoutFires ==
  /\ TopLevel
  /\ bridge # <<>>
  /\ bridge[1].timeoutId = "armed"
  /\ LET done == TimeoutBody(bridge[1], bus["A"])
     IN /\ Put("A", done.bus, stack)
        /\ bridge' = <<[done.bridge EXCEPT !.timeoutId = "fired"]>>
  /\ UNCHANGED <<stack, snap, nextId, clock, ret, handles, onceFired, refired, emitted, joinHandle, shared, manager>>

\* a handler of the program, not a closure of EventUtils, is running
ProgramHandlerRuns == stack # <<>> /\ Head(stack).cur # "none" /\ Running \in Handlers

(* ----------------------------- EventManager --------------------------- *)
\* new EventManager(options); its eventBus is bus A.  A Map is a function
\* to <<>> (no key) or <<value>>, a Set a sequence in insertion order.
\* notified lists the calls made to state listeners, returned the group
\* subscriptions handed to the caller.
NewManager(enableStateManagement) ==
  [options |-> [enableStateManagement |-> enableStateManagement,
                recordHistory |-> TRUE,
                maxHistoryLength |-> DefaultMaxHistoryLength],
   stateValues |-> [k \in StateKeys |-> Undefined],
   stateListeners |-> [k \in StateKeys |-> <<>>],
   eventHistory |-> <<>>,
   eventGroups |-> [g \in GroupNames |-> <<>>],
   groupSubscriptions |-> [g \in GroupNames |-> <<>>],
   notified |-> <<>>,
   returned |-> {}]

\* new Set(eventNames), Set.prototype.add: the names in the order they came, once each
RECURSIVE AddAll(_, _)
AddAll(set, names) ==
  IF names = <<>> THEN set
  ELSE AddAll(IF \E k \in 1..Len(set) : set[k] = Head(names) THEN set
              ELSE Append(set, Head(names)),
              Tail(names))

\* Set.prototype.delete of each name
DeleteAll(set, names) ==
  SelectSeq(set, LAMBDA n : \A k \in 1..Len(names) : names[k] # n)

\* EventManager.recordEvent
ManagerRecordEvent(M, eventName, data, now) ==
  LET pushed == Append(M.eventHistory,
                       [eventName |-> eventName, data |-> data, timestamp |-> now])
  IN [M EXCEPT !.eventHistory = IF Len(pushed) > M.options.maxHistoryLength
                                THEN Tail(pushed) ELSE pushed]

\* this.emit(eventName, data) of a name the bus accepts: the manager's own
\* history, then the emit of the bus
ManagerEmit(M, B0, eventName, data) ==
  /\ manager' = <<IF M.options.recordHistory
                  THEN ManagerRecordEvent(M, eventName, data, clock + 1) ELSE M>>
  /\ EmitFrom("A", B0, eventName, data)

\* EventManager.emit called by the program
Emit(eventName, data) ==
  /\ CanCall
  /\ manager # <<>>
  /\ validateEventName(eventName)
  /\ ManagerEmit(manager[1], bus["A"], eventName, data)

\* EventManager.createGroup
CreateGroup(groupName, names) ==
  /\ TopLevel
  /\ manager # <<>>
  /\ LET M == manager[1]
     IN IF M.eventGroups[groupName] # <<>>
        THEN /\ ret' = Result("createGroup", groupName, "GroupExists")
             /\ UNCHANGED <<bus, stack, snap, nextId, clock, handles, onceFired, refired, emitted, joinHandle, shared, bridge, manager>>
        ELSE ManagerEmit([M EXCEPT !.eventGroups[groupName] = <<AddAll(<<>>, names)>>,
                                   !.groupSubscriptions[groupName] = <<<<>>>>],
                         bus["A"], "@group:created",
                         [groupName |-> groupName, eventNames |-> AddAll(<<>>, names)])

\* EventManager.addToGroup
AddToGroup(groupName, names) ==
  /\ TopLevel
  /\ manager # <<>>
  /\ LET M == manager[1]
     IN IF M.eventGroups[groupName] = <<>>
        THEN /\ ret' = Result("addToGroup", groupName, "NoSuchGroup")
             /\ UNCHANGED <<bus, stack, snap, nextId, clock, handles, onceFired, refired, emitted, joinHandle, shared, bridge, manager>>
        ELSE LET group == AddAll(M.eventGroups[groupName][1], names)
             IN IF Len(group) > Len(M.eventGroups[groupName][1])
                THEN ManagerEmit([M EXCEPT !.eventGroups[groupName] = <<group>>],
                                 bus["A"], "@group:updated",
                                 [groupName |-> groupName, eventNames |-> group,
                                  action |-> "add"])
                ELSE /\ ret' = Result("addToGroup", groupName, "void")
                     /\ UNCHANGED <<bus, stack, snap, nextId, clock, handles, onceFired, refired, emitted, joinHandle, shared, bridge, manager>>

\* EventManager.removeFromGroup
RemoveFromGroup(groupName, names) ==
  /\ TopLevel
  /\ manager # <<>>
  /\ LET M == manager[1]
     IN IF M.eventGroups[groupName] = <<>>
        THEN /\ ret' = Result("removeFromGroup", groupName, "NoSuchGroup")
             /\ UNCHANGED <<bus, stack, snap, nextId, clock, handles, onceFired, refired, emitted, joinHandle, shared, bridge, manager>>
        ELSE LET group == DeleteAll(M.eventGroups[groupName][1], names)
             IN IF Len(group) < Len(M.eventGroups[groupName][1])
                THEN ManagerEmit([M EXCEPT !.eventGroups[groupName] = <<group>>],
                                 bus["A"], "@group:updated",
                                 [groupName |-> groupName, eventNames |-> group,
                                  action |-> "remove"])
                ELSE /\ ret' = Result("removeFromGroup", groupName, "void")
                     /\ UNCHANGED <<bus, stack, snap, nextId, clock, handles, onceFired, refired, emitted, joinHandle, shared, bridge, manager>>

\* group.forEach(eventName => subscriptions.push(this.eventBus.on(eventName,
\* handler, priority))), or once: the bus throws at a name or a handler it
\* rejects, and the names behind it are not reached
RECURSIVE SubscribeEach(_, _, _, _, _, _, _)
SubscribeEach(B, pinned, group, handler, priority, isOnce, id) ==
  IF group = <<>>
  THEN [bus |-> B, subscriptions |-> <<>>, threw |-> FALSE]
  ELSE IF ~validateEventName(Head(group)) \/ ~validateHandler(handler)
  THEN [bus |-> B, subscriptions |-> <<>>, threw |-> TRUE]
  ELSE LET rest == SubscribeEach(Subscribe(B, pinned, Head(group), handler, priority, isOnce, id),
                                 pinned, Tail(group), handler, priority, isOnce, id + 1)
       IN [rest EXCEPT !.subscriptions =
             <<[eventName |-> Head(group), handler |-> handler, id |-> id]>> \o @]

\* the body of onGroup and onceGroup
GroupSubscribe(groupName, handler, priority, isOnce) ==
  /\ TopLevel
  /\ manager # <<>>
  /\ LET M == manager[1]
         op == IF isOnce THEN "onceGroup" ELSE "onGroup"
     IN IF M.eventGroups[groupName] = <<>>
        THEN /\ ret' = Result(op, groupName, "NoSuchGroup")
             /\ UNCHANGED <<bus, nextId, manager>>
        ELSE LET made == SubscribeEach(bus["A"], Pinned(stack, "A"), M.eventGroups[groupName][1],
                                       handler, priority, isOnce, nextId + 1)
                 groupSubscription == [gid |-> nextId, group |-> groupName,
                                       subscriptions |-> made.subscriptions]
             IN /\ Put("A", made.bus, stack)
                /\ nextId' = nextId + 1 + Len(made.subscriptions)
                /\ IF made.threw
                   THEN /\ ret' = Result(op, groupName, "InvalidArgument")
                        /\ UNCHANGED manager
                   ELSE /\ ret' = Result(op, groupName, "void")
                        /\ manager' = <<[M EXCEPT
                                           !.groupSubscriptions[groupName][1] =
                                              Append(@, groupSubscription),
                                           !.returned = @ \cup {groupSubscription}]>>
  /\ UNCHANGED <<stack, snap, clock, handles, onceFired, refired, emitted, joinHandle, shared, bridge>>

OnGroup(groupName, handler, priority) == GroupSubscribe(groupName, handler, priority, FALSE)

OnceGroup(groupName, handler, priority) == GroupSubscribe(groupName, handler, priority, TRUE)

\* Faulty variant: the subscription stays in the list of its group
unsubscribeKeepsEntry(M, B, gs) ==
  [bus |-> UnsubscribeEach(B, gs.subscriptions), manager |-> M]

\* groupSubscription.unsubscribe(): the subscriptions it aggregates, then
\* its own entry in the list it was pushed to
unsubscribe(M, B, gs) ==
  LET list == M.groupSubscriptions[gs.group]
  IN [bus |-> UnsubscribeEach(B, gs.subscriptions),
      manager |-> IF list = <<>> THEN M
                  ELSE [M EXCEPT !.groupSubscriptions[gs.group][1] =
                                    SelectSeq(@, LAMBDA x : x # gs)]]

\* [...groupSubs].forEach(sub => sub.unsubscribe())
RECURSIVE UnsubscribeGroup(_, _, _)
UnsubscribeGroup(M, B, subs) ==
  IF subs = <<>> THEN [bus |-> B, manager |-> M]
  ELSE LET done == unsubscribe(M, B, Head(subs))
       IN UnsubscribeGroup(done.manager, done.bus, Tail(subs))

\* the body of offGroup
offGroup(M, B, groupName) ==
  IF M.groupSubscriptions[groupName] = <<>> THEN [bus |-> B, manager |-> M]
  ELSE LET done == UnsubscribeGroup(M, B, M.groupSubscriptions[groupName][1])
       IN [done EXCEPT !.manager.groupSubscriptions[groupName] = <<<<>>>>]

\* unsubscribe() of a group subscription the caller holds
GroupUnsubscribe(gs) ==
  /\ TopLevel
  /\ manager # <<>>
  /\ gs \in manager[1].returned
  /\ LET done == unsubscribe(manager[1], bus["A"], gs)
     IN /\ Put("A", done.bus, stack)
        /\ manager' = <<done.manager>>
  /\ ret' = Result("unsubscribe", gs.group, "void")
  /\ UNCHANGED <<stack, snap, nextId, clock, handles, onceFired, refired, emitted, joinHandle, shared, bridge>>

\* EventManager.offGroup
OffGroup(groupName) ==
  /\ TopLevel
  /\ manager # <<>>
  /\ LET done == offGroup(manager[1], bus["A"], groupName)
     IN /\ Put("A", done.bus, stack)
        /\ manager' = <<done.manager>>
  /\ ret' = Result("offGroup", groupName, "void")
  /\ UNCHANGED <<stack, snap, nextId, clock, handles, onceFired, refired, emitted, joinHandle, shared, bridge>>

\* EventManager.deleteGroup
DeleteGroup(groupName) ==
  /\ TopLevel
  /\ manager # <<>>
  /\ LET M == manager[1]
     IN IF M.eventGroups[groupName] = <<>>
        THEN /\ ret' = Result("deleteGroup", groupName, "void")
             /\ UNCHANGED <<bus, stack, snap, nextId, clock, handles, onceFired, refired, emitted, joinHandle, shared, bridge, manager>>
        ELSE LET done == offGroup(M, bus["A"], groupName)
                 deleted == [done.manager EXCEPT !.eventGroups[groupName] = <<>>,
                                                 !.groupSubscriptions[groupName] = <<>>]
             IN ManagerEmit(deleted, done.bus, "@group:deleted",
                              [groupName |-> groupName,
                               eventNames |-> M.eventGroups[groupName][1]])

\* EventManager.onStateChange; the Set holds a listener once
OnStateChange(key, listener) ==
  /\ TopLevel
  /\ manager # <<>>
  /\ LET M == manager[1]
     IN IF ~M.options.enableStateManagement
        THEN /\ ret' = Result("onStateChange", key, "StateManagementDisabled")
             /\ UNCHANGED manager
        ELSE /\ ret' = Result("onStateChange", key, "void")
             /\ manager' = <<[M EXCEPT !.stateListeners[key] = AddAll(@, <<listener>>)]>>
  /\ UNCHANGED <<bus, stack, snap, nextId, clock, handles, onceFired, refired, emitted, joinHandle, shared, bridge>>

\* the function onStateChange returned: listeners.delete(listener)
StateUnsubscribe(key, listener) ==
  /\ TopLevel
  /\ manager # <<>>
  /\ \E k \in 1..Len(manager[1].stateListeners[key]) : manager[1].stateListeners[key][k] = listener
  /\ manager' = <<[manager[1] EXCEPT !.stateListeners[key] = DeleteAll(@, <<listener>>)]>>
  /\ ret' = Result("stateUnsubscribe", key, "void")
  /\ UNCHANGED <<bus, stack, snap, nextId, clock, handles, onceFired, refired, emitted, joinHandle, shared, bridge>>

\* oldValue === value, for values that are strings or one and the same object
StrictEquals(x, y) == x = y

\* listeners.forEach(listener => listener(value, oldValue)): each call is
\* listed with what getState(key) gives and how many events the manager
\* has recorded when the call is made
Notify(M, key, value, oldValue) ==
  [M EXCEPT !.notified =
     @ \o [k \in 1..Len(M.stateListeners[key]) |->
             [listener |-> M.stateListeners[key][k], key |-> key,
              value |-> value, oldValue |-> oldValue,
              stored |-> M.stateValues[key],
              recorded |-> Len(M.eventHistory)]]]

\* setState behind its two checks: the value, the listeners, the event
StoreNotifyEmit(M, key, value) ==
  ManagerEmit(Notify([M EXCEPT !.stateValues[key] = value], key, value, M.stateValues[key]),
              bus["A"], "@state:change",
              [key |-> key, value |-> value, oldValue |-> M.stateValues[key]])

\* Faulty variant: a value identical to the stored one is stored and announced again
SetStateOfSameValue(key, value) ==
  /\ TopLevel
  /\ manager # <<>>
  /\ LET M == manager[1]
     IN IF ~M.options.enableStateManagement
        THEN /\ ret' = Result("setState", key, "StateManagementDisabled")
             /\ UNCHANGED <<bus, stack, snap, nextId, clock, handles, onceFired, refired, emitted, joinHandle, shared, bridge, manager>>
        ELSE StoreNotifyEmit(M, key, value)

\* EventManager.setState
SetState(key, value) ==
  /\ TopLevel
  /\ manager # <<>>
  /\ LET M == manager[1]
     IN IF ~M.options.enableStateManagement
        THEN /\ ret' = Result("setState", key, "StateManagementDisabled")
             /\ UNCHANGED <<bus, stack, snap, nextId, clock, handles, onceFired, refired, emitted, joinHandle, shared, bridge, manager>>
        ELSE IF StrictEquals(M.stateValues[key], value)
        THEN /\ ret' = Result("setState", key, "void")
             /\ UNCHANGED <<bus, stack, snap, nextId, clock, handles, onceFired, refired, emitted, joinHandle, shared, bridge, manager>>
        ELSE StoreNotifyEmit(M, key, value)

(* --------------------------- specifications --------------------------- *)

DefaultOptions == CtorOptions({TRUE}, {TRUE}, {TRUE}, {0})

Init == InitWith(DefaultOptions, DefaultOptions)

\* the state after new EventManager({ enableStateManagement })
InitManager(enables) ==
  /\ InitBuses(DefaultOptions, DefaultOptions)
  /\ \E e \in enables : manager = <<NewManager(e)>>

\* what onAny is given where the filters are not the subject
SomeOnAnyOptions ==
  {[type |-> "number", priority |-> Critical, filter |-> NoFilter],
   [type |-> "undefined", priority |-> Normal, filter |-> NoFilter],
   [type |-> "object", priority |-> Normal, filter |-> "event"]}

\* Spec: one bus whose handlers call the bus while a pass is in flight
Next ==
  \/ \E n \in Names, h \in Handlers, p \in {Critical, Normal} :
       nextId <= MaxSubs /\ On("A", n, h, p)
  \/ \E n \in Names, h \in Handlers, p \in {Critical, Normal} :
       nextId <= MaxSubs /\ Once("A", n, h, p)
  \/ \E h \in Handlers, o \in SomeOnAnyOptions : nextId <= MaxSubs /\ OnAny("A", h, o)
  \/ \E n \in Names, h \in Handlers : Off("A", n, h)
  \/ \E n \in Names : OffAll("A", n)
  \/ \E hd \in handles : HandleUnsubscribe(hd)
  \/ \E n \in Names : clock < MaxEmits /\ Len(stack) < MaxDepth /\ EmitBegin("A", n, 1)
  \/ InvokeNamed
  \/ InvokeWildcard
  \/ HandlerReturns(FALSE)
  \/ EmitReturn

Spec == Init /\ [][Next]_vars

\* SpecOrder: one name, every priority, handlers that only return
NextOrder ==
  \/ \E h \in Handlers, p \in Priorities :
       TopLevel /\ nextId <= MaxOrderSubs /\ On("A", "a", h, p)
  \/ \E h \in Handlers, p \in Priorities :
       TopLevel /\ nextId <= MaxOrderSubs /\ Once("A", "a", h, p)
  \/ \E h \in Handlers, p \in Priorities :
       TopLevel /\ nextId <= MaxOrderSubs
         /\ OnAny("A", h, [type |-> "number", priority |-> p, filter |-> NoFilter])
  \/ \E h \in Handlers : TopLevel /\ Off("A", "a", h)
  \/ \E hd \in handles : TopLevel /\ HandleUnsubscribe(hd)
  \/ TopLevel /\ clock < MaxEmits /\ EmitBegin("A", "a", 1)
  \/ InvokeNamed
  \/ InvokeWildcard
  \/ HandlerReturns(FALSE)
  \/ EmitReturn

SpecOrder == Init /\ [][NextOrder]_vars

\* SpecFilter: wildcard subscriptions with every shape of filter
NextFilter ==
  \/ \E h \in Handlers, o \in OnAnyOptions :
       TopLevel /\ nextId <= MaxOrderSubs /\ o.type # "number" /\ OnAny("A", h, o)
  \/ \E hd \in handles : TopLevel /\ HandleUnsubscribe(hd)
  \/ \E n \in Names, d \in Data : TopLevel /\ clock < MaxEmits /\ EmitBegin("A", n, d)
  \/ InvokeWildcard
  \/ HandlerReturns(FALSE)
  \/ EmitReturn

SpecFilter == Init /\ [][NextFilter]_vars

\* SpecHistory: a bus A with a small history, and a bus B, constructed with
\* the default size, that is restored from snapshots
InitHistory == InitWith(CtorOptions({TRUE}, BOOLEAN, BOOLEAN, {1, 2}), DefaultOptions)

NextHistory ==
  \/ TopLevel /\ nextId <= MaxHistSubs /\ On("A", "a", "h1", Normal)
  \/ \E n \in Names, d \in Data : TopLevel /\ clock < MaxHistEmits /\ EmitBegin("A", n, d)
  \/ TopLevel /\ clock < MaxHistEmits /\ EmitBegin("B", "a", 1)
  \/ TopLevel /\ ClearHistory("A")
  \/ \E b \in BusIds : TopLevel /\ GetSnapshot(b)
  \/ TopLevel /\ RestoreFromSnapshot("B")
  \/ InvokeNamed
  \/ HandlerReturns(FALSE)
  \/ HandlerThrows
  \/ EmitReturn

SpecHistory == InitHistory /\ [][NextHistory]_vars

\* SpecPass: one pass at a time over one name; the handlers of the pass
\* subscribe, unsubscribe and clear while it is in flight
NextPass ==
  \/ \E h \in Handlers, p \in {Critical, Normal} :
       nextId <= MaxPassSubs /\ On("A", "a", h, p)
  \/ \E h \in Handlers, p \in {Critical, Normal} :
       nextId <= MaxPassSubs /\ Once("A", "a", h, p)
  \/ \E h \in Handlers, o \in SomeOnAnyOptions : nextId <= MaxPassSubs /\ OnAny("A", h, o)
  \/ \E h \in Handlers : Off("A", "a", h)
  \/ \E hd \in handles : HandleUnsubscribe(hd)
  \/ Clear("A")
  \/ TopLevel /\ clock < MaxPassEmits /\ EmitBegin("A", "a", 1)
  \/ InvokeNamed
  \/ InvokeWildcard
  \/ HandlerReturns(FALSE)
  \/ EmitReturn

SpecPass == Init /\ [][NextPass]_vars

\* SpecErrors: handlers that throw, on a bus that catches and on one that does not
InitErrors == InitWith(CtorOptions({TRUE}, BOOLEAN, {TRUE}, {0}), DefaultOptions)

NextErrors ==
  \/ \E h \in Handlers, p \in {Critical, Normal} :
       TopLevel /\ nextId <= MaxErrSubs /\ On("A", "a", h, p)
  \/ \E h \in Handlers, p \in {Critical, Normal} :
       TopLevel /\ nextId <= MaxErrSubs /\ Once("A", "a", h, p)
  \/ \E h \in Handlers, o \in SomeOnAnyOptions :
       TopLevel /\ nextId <= MaxErrSubs /\ OnAny("A", h, o)
  \/ TopLevel /\ clock < MaxErrEmits /\ EmitBegin("A", "a", 1)
  \/ InvokeNamed
  \/ InvokeWildcard
  \/ HandlerReturns(FALSE)
  \/ HandlerThrows
  \/ EmitReturn

SpecErrors == InitErrors /\ [][NextErrors]_vars

\* SpecEmpty: filtered wildcard subscriptions on a bus that allows empty
\* events and on one that does not
InitEmpty == InitWith(CtorOptions({TRUE}, {TRUE}, BOOLEAN, {0}), DefaultOptions)

NextEmpty ==
  \/ \E n \in Names : TopLevel /\ nextId <= MaxOrderSubs /\ On("A", n, "h1", Normal)
  \/ \E h \in Handlers, o \in OnAnyOptions :
       TopLevel /\ nextId <= MaxOrderSubs /\ o.type = "object" /\ OnAny("A", h, o)
  \/ \E hd \in handles : TopLevel /\ HandleUnsubscribe(hd)
  \/ \E n \in Names, d \in Data : TopLevel /\ clock < MaxEmits /\ EmitBegin("A", n, d)
  \/ InvokeNamed
  \/ InvokeWildcard
  \/ HandlerReturns(FALSE)
  \/ EmitReturn

SpecEmpty == InitEmpty /\ [][NextEmpty]_vars

\* SpecAsync: handlers that return promises, on a bus with asyncEventHandling
\* and on one without; the promises settle in any order
InitAsync == InitWith(CtorOptions(BOOLEAN, {TRUE}, {TRUE}, {0}), DefaultOptions)

NextAsync ==
  \/ \E h \in Handlers, p \in {Critical, Normal} :
       TopLevel /\ nextId <= MaxAsyncSubs /\ On("A", "a", h, p)
  \/ \E h \in Handlers :
       TopLevel /\ nextId <= MaxAsyncSubs
         /\ OnAny("A", h, [type |-> "undefined", priority |-> Normal, filter |-> NoFilter])
  \/ TopLevel /\ clock < MaxAsyncEmits /\ EmitBegin("A", "a", 1)
  \/ InvokeNamed
  \/ InvokeWildcard
  \/ \E promise \in BOOLEAN : HandlerReturns(promise)
  \/ EmitReturn
  \/ \E k \in 1..MaxAsyncSubs, outcome \in {"fulfilled", "rejected"} : PromiseSettles(k, outcome)

SpecAsync == InitAsync /\ [][NextAsync]_vars

\* SpecInvalid: calls whose event name or handler is not a valid argument,
\* among valid ones
AnyNames == Names \cup BlankNames \cup NotStrings
AnyHandlers == Handlers \cup NotFunctions

NextInvalid ==
  \/ \E n \in AnyNames, h \in AnyHandlers :
       TopLevel /\ nextId <= MaxOrderSubs /\ On("A", n, h, Normal)
  \/ \E n \in AnyNames, h \in {"h1"} \cup NotFunctions :
       TopLevel /\ nextId <= MaxOrderSubs /\ Once("A", n, h, Normal)
  \/ \E h \in {"h1"} \cup NotFunctions :
       TopLevel /\ nextId <= MaxOrderSubs
         /\ OnAny("A", h, [type |-> "undefined", priority |-> Normal, filter |-> NoFilter])
  \/ \E n \in AnyNames : TopLevel /\ clock < MaxEmits /\ EmitBegin("A", n, 1)
  \/ InvokeNamed
  \/ InvokeWildcard
  \/ HandlerReturns(FALSE)
  \/ EmitReturn

SpecInvalid == Init /\ [][NextInvalid]_vars

\* SpecTwo: two buses side by side; A is constructed with a history of one
\* entry and an onError of its own, B with the defaults, and snapshots of
\* either are restored into either
CustomErrorHandler == "onErrorA"

InitTwo ==
  InitWith([asyncEventHandling : {TRUE}, catchErrors : {TRUE}, allowEmptyEvents : {TRUE},
            maxHistorySize : {1}, onError : {CustomErrorHandler}],
           DefaultOptions)

EventFilterOptions == [type |-> "object", priority |-> Normal, filter |-> "event"]

NextTwo ==
  \/ \E b \in BusIds : TopLevel /\ nextId <= MaxTwoSubs /\ On(b, "a", "h1", Normal)
  \/ \E b \in BusIds : TopLevel /\ nextId <= MaxTwoSubs /\ OnAny(b, "h1", EventFilterOptions)
  \/ \E b \in BusIds : TopLevel /\ Off(b, "a", "h1")
  \/ \E b \in BusIds : TopLevel /\ clock < MaxTwoEmits /\ EmitBegin(b, "a", 1)
  \/ \E b \in BusIds : TopLevel /\ ClearHistory(b)
  \/ \E b \in BusIds : TopLevel /\ GetSnapshot(b)
  \/ \E b \in BusIds : TopLevel /\ RestoreFromSnapshot(b)
  \/ InvokeNamed
  \/ InvokeWildcard
  \/ HandlerReturns(FALSE)
  \/ HandlerThrows
  \/ EmitReturn

SpecTwo == InitTwo /\ [][NextTwo]_vars

\* SpecReset: one bus that is cleared, whose history is cleared, and that is
\* restored from its own snapshots; clear and clearHistory are also called
\* by the handlers of a pass
NextReset ==
  \/ TopLevel /\ nextId <= MaxSubs /\ On("A", "a", "h1", Normal)
  \/ TopLevel /\ nextId <= MaxSubs
       /\ OnAny("A", "h1", [type |-> "undefined", priority |-> Normal, filter |-> NoFilter])
  \/ TopLevel /\ Off("A", "a", "h1")
  \/ \E n \in Names : TopLevel /\ clock < MaxEmits /\ EmitBegin("A", n, 1)
  \/ Clear("A")
  \/ ClearHistory("A")
  \/ TopLevel /\ GetSnapshot("A")
  \/ TopLevel /\ RestoreFromSnapshot("A")
  \/ InvokeNamed
  \/ InvokeWildcard
  \/ HandlerReturns(FALSE)
  \/ EmitReturn

SpecReset == Init /\ [][NextReset]_vars

\* a program that subscribes its own handlers before and after it builds one
\* bridge on names that are valid or blank, and then emits
BridgeNames == {<<"a">>, <<"a", "1">>, <<"a", " ">>}

NextBridge ==
  \/ \E n \in Names : TopLevel /\ nextId <= MaxBridgeSubs /\ On("A", n, "h1", Normal)
  \/ \E e \in {"", "1"}, t \in BOOLEAN : EventToPromise("a", e, t)
  \/ \E ns \in BridgeNames, t \in BOOLEAN : WaitForAny(ns, t)
  \/ \E ns \in BridgeNames, t \in BOOLEAN : WaitForAll(ns, t)
  \/ \E n \in Names : TopLevel /\ clock < MaxBridgeEmits /\ EmitBegin("A", n, 1)
  \/ InvokeNamed
  \/ ProgramHandlerRuns /\ HandlerReturns(FALSE)
  \/ ClosureRuns
  \/ EmitReturn
  \/ TimeoutFires

SpecBridge == Init /\ [][NextBridge]_vars


\* a program that subscribes handlers directly on the manager's bus and
\* through one group, removes group subscriptions in the three ways there
\* are, and emits
GroupEvents == {<<"a">>, <<"a", "1">>, <<"a", " ">>}

InitGroups == InitManager({FALSE})

NextGroups ==
  \/ \E ns \in GroupEvents : clock < MaxGroupEmits /\ CreateGroup("g", ns)
  \/ clock < MaxGroupEmits /\ AddToGroup("g", <<"1">>)
  \/ clock < MaxGroupEmits /\ RemoveFromGroup("g", <<"1">>)
  \/ \E h \in Handlers : TopLevel /\ nextId <= MaxGroupSubs /\ On("A", "a", h, Critical)
  \/ nextId <= MaxGroupSubs /\ OnGroup("g", "h1", Normal)
  \/ nextId <= MaxGroupSubs /\ OnceGroup("g", "h1", Normal)
  \/ \E gs \in manager[1].returned : GroupUnsubscribe(gs)
  \/ OffGroup("g")
  \/ clock < MaxGroupEmits /\ DeleteGroup("g")
  \/ TopLevel /\ clock < MaxGroupEmits /\ Emit("a", 1)
  \/ InvokeNamed
  \/ HandlerReturns(FALSE)
  \/ EmitReturn

SpecGroups == InitGroups /\ [][NextGroups]_vars

\* a program that listens to one state key and to the manager's
\* state-change event, and sets the key, with state management on and off
InitState == InitManager(BOOLEAN)

NextState ==
  \/ TopLevel /\ nextId <= MaxStateSubs /\ On("A", "@state:change", "h1", Normal)
  \/ \E l \in Listeners : OnStateChange("k", l)
  \/ \E l \in Listeners : StateUnsubscribe("k", l)
  \/ \E v \in StateValues \cup {Undefined} : clock < MaxStateEmits /\ SetState("k", v)
  \/ InvokeNamed
  \/ HandlerReturns(FALSE)
  \/ EmitReturn

SpecState == InitState /\ [][NextState]_vars

(* -------------------------------- properties ------------------------------ *)
NamedInvoked(f) == SelectSeq(f.invoked, LAMBDA v : v.kind = "named")
WildcardInvoked(f) == SelectSeq(f.invoked, LAMBDA v : v.kind = "wildcard")
Ids(s) == [k \in 1..Len(s) |-> s[k].id]
Ascending(s) == \A j, k \in 1..Len(s) : j < k => s[j].priority <= s[k].priority

\* C1: an emit invokes the named handlers of its name in ascending priority
\* value, whatever the order of the on and once calls: at every moment of a
\* pass the handlers invoked so far are in ascending priority, and when the
\* pass has run they are exactly the records of the bucket.
C1_EmitInvokesInPriorityOrder ==
  \A x \in 1..Len(stack) :
    LET f == stack[x]
        named == NamedInvoked(f)
    IN /\ Ascending(named)
       /\ \A j, k \in 1..Len(named) : j < k => named[j].id # named[k].id
       /\ Finished(f) =>
            {named[k].id : k \in 1..Len(named)}
              = {r.id : r \in {Bucket(bus[f.b], f.eventName)[k] :
                                 k \in 1..Len(Bucket(bus[f.b], f.eventName))}}

\* a finished pass that invoked three handlers, one of them subscribed after
\* a handler it was invoked before
C1_Witness ==
  \E x \in 1..Len(stack) :
    LET named == NamedInvoked(stack[x])
    IN /\ Finished(stack[x])
       /\ Len(named) >= 3
       /\ \E j, k \in 1..Len(named) : j < k /\ named[j].id > named[k].id

SortedStable(s) ==
  \A j, k \in 1..Len(s) :
    j < k => \/ s[j].priority < s[k].priority
             \/ (s[j].priority = s[k].priority /\ s[j].id < s[k].id)

\* C2: every bucket and the wildcard list are in ascending priority, records
\* of equal priority in the order of their subscription, in every state.
C2_BucketsSortedStable ==
  \A b \in BusIds :
    /\ \A n \in Names : SortedStable(Bucket(bus[b], n))
    /\ SortedStable(bus[b].wildcardHandlers)

\* a pass is in flight over a bucket in which a record sorts ahead of one
\* subscribed before it
C2_Witness ==
  /\ stack # <<>>
  /\ \E n \in Names :
       LET s == Bucket(bus["A"], n)
       IN \E j, k \in 1..Len(s) : j < k /\ s[j].id > s[k].id
  /\ clock > 0

\* C3: a once record is invoked by at most one emit.
C3_OnceFiresOnAtMostOneEmit == refired = {}

\* the pass that begins clones the bucket of its name and the wildcard list
BeginClones ==
  \A n \in Names :
    (EmitBegin("A", n, 1) /\ stack' # stack) =>
       /\ Head(stack').clonedHandlers = Bucket(bus["A"], n)
       /\ Head(stack').clonedWildcardHandlers = bus["A"].wildcardHandlers

\* what a pass has invoked: the named records of its clone up to the one the
\* loop has reached, each once and in order
NamedLoopInvokesClone ==
  \A x \in 1..Len(stack) :
    LET f == stack[x]
        reached == IF f.cur = "named" THEN f.i
                   ELSE IF f.cur = "wildcard" \/ Finished(f) THEN Len(f.clonedHandlers)
                   ELSE Len(NamedInvoked(f))
    IN /\ Len(NamedInvoked(f)) <= Len(f.clonedHandlers)
       /\ Ids(NamedInvoked(f)) = Ids(SubSeq(f.clonedHandlers, 1, reached))

\* s without its element at position k
Without(s, k) == [j \in 1..(Len(s) - 1) |-> IF j < k THEN s[j] ELSE s[j + 1]]

OwnFilterAccepts(rec, eventName, data) ==
  CASE rec.filter = "event" -> eventName = "a"
    [] rec.filter = "data" -> data > 1
    [] rec.filter = "both" -> eventName = "a" /\ data > 1
    [] OTHER -> TRUE

\* the wildcard records of its clone that a pass has invoked: those, up to
\* the one the loop has reached, that their own filter accepts
WildcardLoopInvokesAccepted ==
  \A x \in 1..Len(stack) :
    LET f == stack[x]
        reached == IF f.cur = "wildcard" THEN f.w
                   ELSE IF Finished(f) THEN Len(f.clonedWildcardHandlers)
                   ELSE f.w - 1
    IN Ids(WildcardInvoked(f))
         = Ids(SelectSeq(SubSeq(f.clonedWildcardHandlers, 1, reached),
                         LAMBDA r : OwnFilterAccepts(r, f.eventName, f.data)))

\* C5: off(name) leaves no record under name and changes neither the wildcard
\* list nor another bucket; a pass that begins with no bucket invokes no named
\* handler, and it invokes the wildcard handlers whose filter passes.
C5_OffAllLeavesWildcards ==
  /\ [][\A n \in Names :
          OffAll("A", n) =>
            /\ listenerCount(bus'["A"], n) = 0
            /\ \A k \in 1..Len(eventNames(bus'["A"])) : eventNames(bus'["A"])[k] # n
            /\ bus'["A"].wildcardHandlers = bus["A"].wildcardHandlers
            /\ \A m \in Names \ {n} : Bucket(bus'["A"], m) = Bucket(bus["A"], m)]_vars
  /\ [][BeginClones /\ (\A n \in Names :
                          (EmitBegin("A", n, 1) /\ stack' # stack /\ listenerCount(bus["A"], n) = 0)
                            => Head(stack').clonedHandlers = <<>>)]_vars
  /\ [](NamedLoopInvokesClone /\ WildcardLoopInvokesAccepted)

\* off(name) has dropped a bucket, and the pass that follows has invoked the
\* wildcard handler and no named handler
C5_Witness ==
  /\ ret = Result("offAll", "a", "void")
  /\ \E hd \in handles : hd.kind = "named" /\ hd.eventName = "a"
  /\ stack # <<>>
  /\ Finished(Head(stack))
  /\ Head(stack).eventName = "a"
  /\ Head(stack).invoked # <<>>
  /\ NamedInvoked(Head(stack)) = <<>>
  /\ Ids(WildcardInvoked(Head(stack))) = Ids(bus["A"].wildcardHandlers)

\* C6: a pass invokes a wildcard record if and only if the record's own event
\* predicate (if it has one) accepts the name and its own data predicate (if it
\* has one) accepts the data, whatever the filters of the other records say.
C6_FiltersGateIndependently ==
  \A x \in 1..Len(stack) :
    LET f == stack[x]
        live == bus[f.b].wildcardHandlers
        invoked == WildcardInvoked(f)
    IN /\ \A k \in 1..Len(invoked) :
            \E j \in 1..Len(live) :
              live[j].id = invoked[k].id /\ OwnFilterAccepts(live[j], f.eventName, f.data)
       /\ Finished(f) =>
            Ids(invoked)
              = Ids(SelectSeq(live, LAMBDA r : OwnFilterAccepts(r, f.eventName, f.data)))

\* a finished pass in which the filter of an earlier record rejected the
\* event and a later record was invoked, and the other way round
C6_Witness ==
  /\ stack # <<>>
  /\ Finished(Head(stack))
  /\ LET f == Head(stack)
         live == bus["A"].wildcardHandlers
     IN /\ Len(live) = 3
        /\ ~OwnFilterAccepts(live[1], f.eventName, f.data)
        /\ OwnFilterAccepts(live[2], f.eventName, f.data)
        /\ ~OwnFilterAccepts(live[3], f.eventName, f.data)
        /\ live[1].filter # live[3].filter
        /\ Ids(WildcardInvoked(f)) = <<live[2].id>>

\* C7: the history is never longer than the maxHistorySize the bus reports.
C7_HistoryWithinReportedBound ==
  \A b \in BusIds : getState(bus[b]).historySize <= getState(bus[b]).options.maxHistorySize

\* C8: once more events were emitted than maxHistorySize, the history is the
\* last maxHistorySize of them, oldest first.
C8_HistoryKeepsMostRecent ==
  LET M == getState(bus["A"]).options.maxHistorySize
      e == emitted["A"]
  IN Len(e) > M => getHistory(bus["A"]) = SubSeq(e, Len(e) - M + 1, Len(e))

\* three events were emitted on a bus that keeps two
C8_Witness ==
  /\ getState(bus["A"]).options.maxHistorySize = 2
  /\ Len(emitted["A"]) = 3
  /\ Len(getHistory(bus["A"])) = 2

\* C9: an emit with a valid name appends its entry before any handler of the
\* pass is invoked, and the entry is in the history when the emit has failed
\* with NoSubscribers or with the error of a handler.
C9_HistoryRecordsAttempts ==
  /\ [][\A b \in BusIds, n \in Names, d \in Data :
          EmitBegin(b, n, d) =>
            /\ getHistory(bus'[b]) # <<>>
            /\ Last(getHistory(bus'[b])) = [event |-> n, data |-> d, timestamp |-> clock']
            /\ Len(getHistory(bus'[b])) >= Len(getHistory(bus[b]))
            /\ stack' # stack => Head(stack').invoked = <<>>]_vars
  /\ [][(HandlerThrows /\ ret'.out = "HandlerError") =>
          LET f == Head(stack)
          IN /\ getHistory(bus'[f.b]) = getHistory(bus[f.b])
             /\ Last(getHistory(bus'[f.b])).event = f.eventName
             /\ Last(getHistory(bus'[f.b])).data = f.data]_vars
  /\ []((stack = <<>> /\ ret.out \in {"NoSubscribers", "HandlerError"}) =>
          \E b \in BusIds :
            /\ getHistory(bus[b]) # <<>>
            /\ Last(getHistory(bus[b])).event = ret.eventName
            /\ Last(getHistory(bus[b])).timestamp = clock)

\* an emit has failed with the error of its handler, and its entry is the
\* newest of the history
C9_Witness ==
  /\ ret = Result("emit", "a", "HandlerError")
  /\ stack = <<>>
  /\ Len(getHistory(bus["A"])) = 2
  /\ Last(getHistory(bus["A"])).timestamp = clock

Range(s) == {s[k] : k \in 1..Len(s)}

\* C10: a snapshot of a bus, restored into a fresh bus, gives a bus with the
\* event names and the history of the source and no listener under any name.
C10_SnapshotRoundTrip ==
  \A b \in BusIds :
    LET fresh == NewBus(CHOOSE o \in DefaultOptions : TRUE)
        restored == restoreFromSnapshot(fresh, {}, getSnapshot(bus[b]))
    IN /\ Range(eventNames(restored)) = Range(eventNames(bus[b]))
       /\ getHistory(restored) = getHistory(bus[b])
       /\ \A n \in Range(eventNames(restored)) : listenerCount(restored, n) = 0

\* C11: every name eventNames() returns has at least one subscriber record:
\* no empty bucket is in the registry, in any state.
C11_NoEmptyBucket ==
  \A b \in BusIds :
    \A n \in Range(eventNames(bus[b])) : listenerCount(bus[b], n) > 0

\* the records a pass is to invoke, fixed when it began: the named records
\* of its clone, then the wildcard records of its clone whose filter accepts
PassSet(f) ==
  Ids(f.clonedHandlers)
    \o Ids(SelectSeq(f.clonedWildcardHandlers,
                     LAMBDA r : OwnFilterAccepts(r, f.eventName, f.data)))

\* C12: the handlers one emit invokes are those present when the pass began:
\* at every moment the handlers invoked so far are the first of that set, in
\* its order, and a pass that has run has invoked all of it, whatever the
\* handlers of the pass subscribed, unsubscribed or cleared meanwhile.
C12_PassSetFixedAtStart ==
  /\ [][BeginClones]_vars
  /\ [](\A x \in 1..Len(stack) :
          LET f == stack[x]
              done == Ids(f.invoked)
          IN /\ Len(done) <= Len(PassSet(f))
             /\ done = SubSeq(PassSet(f), 1, Len(done))
             /\ Finished(f) => done = PassSet(f))

\* a pass has run in which a handler unsubscribed a record that was invoked
\* after it all the same, and a record subscribed meanwhile was not invoked
C12_Witness ==
  /\ stack # <<>>
  /\ Finished(Head(stack))
  /\ LET f == Head(stack)
         live == Ids(Bucket(bus["A"], "a")) \o Ids(bus["A"].wildcardHandlers)
     IN /\ Len(f.invoked) >= 2
        /\ ~f.invoked[Len(f.invoked)].once
        /\ f.invoked[Len(f.invoked)].id \notin Range(live)
        /\ \E k \in 1..Len(live) : live[k] \notin Range(Ids(f.invoked))
        /\ ret.op \in {"on", "once", "onAny"}

\* C13: within one emit no named handler is invoked after a wildcard handler,
\* the first wildcard handler is invoked when every record of the bucket has
\* been, whatever the priorities, and the wildcard handlers are invoked in
\* ascending priority, those of equal priority in the order of subscription.
C13_NamedBeforeWildcard ==
  \A x \in 1..Len(stack) :
    LET f == stack[x]
    IN /\ \A j, k \in 1..Len(f.invoked) :
            j < k => ~(f.invoked[j].kind = "wildcard" /\ f.invoked[k].kind = "named")
       /\ WildcardInvoked(f) # <<>> =>
            Ids(NamedInvoked(f)) = Ids(Bucket(bus[f.b], f.eventName))
       /\ SortedStable(WildcardInvoked(f))

\* a pass has invoked a Low named handler, then a Critical wildcard handler,
\* then a wildcard handler subscribed before that one
C13_Witness ==
  /\ stack # <<>>
  /\ Finished(Head(stack))
  /\ LET v == Head(stack).invoked
     IN /\ Len(v) = 3
        /\ v[1].kind = "named" /\ v[1].priority = Low
        /\ v[2].kind = "wildcard" /\ v[2].priority = Critical
        /\ v[3].kind = "wildcard" /\ v[3].id < v[2].id

C15_UncaughtErrorPropagates ==
  /\ [][(HandlerThrows /\ ~bus[Head(stack).b].options.catchErrors) =>
          /\ stack' = Tail(stack)
          /\ ret' = Result("emit", Head(stack).eventName, "HandlerError")]_vars
  /\ [](\A x \in 1..Len(stack) :
          ~bus[stack[x].b].options.catchErrors => stack[x].errors = <<>>)

\* the only emit so far has ended with the error of its first handler, and
\* the once record behind that handler in the bucket was not invoked
C15_Witness ==
  /\ ret = Result("emit", "a", "HandlerError")
  /\ stack = <<>>
  /\ clock = 1
  /\ ~bus["A"].options.catchErrors
  /\ LET s == Bucket(bus["A"], "a")
     IN /\ Len(s) >= 2
        /\ s[2].once
        /\ s[2].id \notin onceFired

\* C16: when an emit has returned or thrown, no once record that the pass
\* invoked is left in the live registry.
C16_InvokedOnceRecordsAreGone ==
  [][(stack # <<>> /\ stack' = Tail(stack)) =>
       LET f == Head(stack)
           live == Ids(Bucket(bus'[f.b], f.eventName)) \o Ids(bus'[f.b].wildcardHandlers)
       IN \A k \in 1..Len(f.invoked) :
            f.invoked[k].once => f.invoked[k].id \notin Range(live)]_vars

\* C17: with allowEmptyEvents = false an emit fails with NoSubscribers exactly
\* when the bucket of the name is empty and no wildcard record's filter
\* accepts the event; with allowEmptyEvents = true the emit begins its pass,
\* which has nothing to invoke in that case.
C17_NoSubscribersIffNothingResolves ==
  [][\A n \in Names, d \in Data :
       EmitBegin("A", n, d) =>
         LET B == bus["A"]
             nothing == /\ Bucket(B, n) = <<>>
                        /\ \A k \in 1..Len(B.wildcardHandlers) :
                             ~OwnFilterAccepts(B.wildcardHandlers[k], n, d)
         IN IF getState(B).options.allowEmptyEvents
            THEN /\ stack' # stack
                 /\ nothing => Finished(Head(stack'))
            ELSE /\ (stack' = stack) <=> nothing
                 /\ stack' = stack => ret' = Result("emit", n, "NoSubscribers")]_vars

\* C18: an emit that runs to its end returns a join handle if and only if
\* asyncEventHandling is enabled and a handler of the pass returned a promise;
\* otherwise it returns nothing.  The handle joins the promises returned.
C18_JoinHandleIffPromiseQueued ==
  [][EmitReturn =>
       LET f == Head(stack)
           queued == getState(bus[f.b]).options.asyncEventHandling /\ f.returnedPromise # <<>>
       IN /\ ret'.out = IF queued THEN "join" ELSE "void"
          /\ queued => Len(joinHandle'[1].ops) = Len(f.returnedPromise)
          /\ ~queued => joinHandle' = joinHandle]_vars

\* the only emit so far has returned a join handle of one promise from a
\* pass over two handlers
C18_Witness ==
  /\ ret = Result("emit", "a", "join")
  /\ stack = <<>>
  /\ clock = 1
  /\ listenerCount(bus["A"], "a") + wildcardListenerCount(bus["A"]) = 2
  /\ Len(joinHandle[1].ops) = 1

\* C19: the join handle is fulfilled exactly when every promise queued in the
\* pass is fulfilled, and rejected exactly when one of them is rejected,
\* whether or not the others are still pending; once settled it stays so.
C19_JoinIsFailFast ==
  /\ [][(EmitReturn /\ ret'.out = "join") =>
          /\ Len(joinHandle'[1].ops) = Len(Head(stack).returnedPromise)
          /\ joinHandle'[1].state = "pending"]_vars
  /\ [](joinHandle # <<>> =>
          LET j == joinHandle[1]
          IN /\ j.state = "fulfilled" <=> \A k \in 1..Len(j.ops) : j.ops[k] = "fulfilled"
             /\ j.state = "rejected" <=> \E k \in 1..Len(j.ops) : j.ops[k] = "rejected")
  /\ [][(\E k \in 1..MaxAsyncSubs, outcome \in {"fulfilled", "rejected"} :
            PromiseSettles(k, outcome))
          => (joinHandle[1].state # "pending" => joinHandle'[1].state = joinHandle[1].state)]_vars

\* the join handle has failed on its second promise while the first is
\* still pending
C19_Witness ==
  /\ joinHandle # <<>>
  /\ joinHandle[1].ops = <<"pending", "rejected">>
  /\ joinHandle[1].state = "rejected"

\* C20: emit returns only when every handler of the pass has been started,
\* in the order of the pass; a promise a handler returns neither stops the
\* loops nor settles while the pass is in flight, and the promises joined are
\* all pending when emit returns.
C20_HandlersStartWithoutWaiting ==
  /\ [][EmitReturn => Ids(Head(stack).invoked) = PassSet(Head(stack))]_vars
  /\ [][(EmitReturn /\ ret'.out = "join") =>
          \A k \in 1..Len(joinHandle'[1].ops) : joinHandle'[1].ops[k] = "pending"]_vars
  /\ [][stack # <<>> /\ stack' # <<>> => joinHandle' = joinHandle]_vars
  /\ [](\A x \in 1..Len(stack) :
          Ids(stack[x].invoked) = SubSeq(PassSet(stack[x]), 1, Len(stack[x].invoked)))

\* a pass has run whose first handler returned a promise and whose second
\* handler was started after it and returned none
C20_Witness ==
  /\ stack # <<>>
  /\ Finished(Head(stack))
  /\ LET f == Head(stack)
     IN /\ Len(f.invoked) >= 2
        /\ f.returnedPromise = <<f.invoked[1].id>>
        /\ getState(bus[f.b]).options.asyncEventHandling
        /\ f.handlerPromises = 1

\* what a caller can observe of a bus's registries and history
Observable(B) ==
  [eventNames |-> eventNames(B),
   buckets |-> [n \in Names |-> Bucket(B, n)],
   wildcardHandlers |-> B.wildcardHandlers,
   history |-> getHistory(B)]

\* C21: on, once and onAny called with an empty, whitespace-only or
\* non-string event name, or with a handler that is not a function, fail with
\* InvalidArgument and leave the named registry (no new bucket, not even an
\* empty one), the wildcard registry and the history as they were.
C21_InvalidSubscribeChangesNothing ==
  [][\A n \in AnyNames, h \in AnyHandlers :
       /\ ((n \in BlankNames \cup NotStrings \/ h \in NotFunctions)
             /\ (On("A", n, h, Normal) \/ Once("A", n, h, Normal)))
            => /\ ret'.out = "InvalidArgument"
               /\ Observable(bus'["A"]) = Observable(bus["A"])
       /\ (h \in NotFunctions
             /\ OnAny("A", h, [type |-> "undefined", priority |-> Normal, filter |-> NoFilter]))
            => /\ ret'.out = "InvalidArgument"
               /\ Observable(bus'["A"]) = Observable(bus["A"])]_vars

\* a subscribe call has just been rejected on a bus that has a named
\* record, a wildcard record and a recorded event
C21_Witness ==
  /\ ret.op \in {"on", "once", "onAny"}
  /\ ret.out = "InvalidArgument"
  /\ eventNames(bus["A"]) # <<>>
  /\ wildcardListenerCount(bus["A"]) > 0
  /\ getHistory(bus["A"]) # <<>>

\* C22: emit called with an invalid event name fails with InvalidArgument
\* before anything else: no history entry is added, no pass begins (so no
\* handler runs, not even an unfiltered wildcard one), and the registries
\* are as they were.
C22_InvalidEmitChangesNothing ==
  [][\A n \in BlankNames \cup NotStrings :
       EmitBegin("A", n, 1)
         => /\ ret'.out = "InvalidArgument"
            /\ Observable(bus'["A"]) = Observable(bus["A"])
            /\ stack' = stack
            /\ onceFired' = onceFired]_vars

\* an emit has just been rejected for its name on a bus that has a named
\* record and an unfiltered wildcard record
C22_Witness ==
  /\ ret.op = "emit"
  /\ ret.out = "InvalidArgument"
  /\ ret.eventName \in BlankNames \cup NotStrings
  /\ eventNames(bus["A"]) # <<>>
  /\ \E k \in 1..Len(bus["A"].wildcardHandlers) :
       bus["A"].wildcardHandlers[k].filter = NoFilter

\* the subscribe calls (by the number of the call) whose record a bus holds
LiveIds(B) ==
  UNION {Range(Ids(Bucket(B, n))) : n \in Names} \cup Range(Ids(B.wildcardHandlers))

\* C23: unsubscribe() of the handle a call to on or once returned removes
\* the record that call created and no other, also when the same function
\* is subscribed to the name more than once, and removes nothing when that
\* record is already gone.
C23_HandleRemovesItsOwnRecord ==
  [][\A hd \in handles :
       (hd.kind = "named" /\ HandleUnsubscribe(hd))
         => LiveIds(bus'[hd.b]) = LiveIds(bus[hd.b]) \ {hd.id}]_vars

\* C24: no failure of an invoked handler is dropped.  A throw goes to the
\* error handler or out of emit; a promise a handler returned is joined by
\* the handle emit gives its caller, whatever asyncEventHandling says, so
\* that its later rejection reaches the caller.
C24_NoFailureIsDropped ==
  /\ [][HandlerThrows =>
          \/ ret' = Result("emit", Head(stack).eventName, "HandlerError")
          \/ /\ stack' # <<>>
             /\ Len(Head(stack').errors) = Len(Head(stack).errors) + 1]_vars
  /\ [][EmitReturn =>
          LET f == Head(stack)
          IN f.returnedPromise # <<>>
               => /\ ret'.out = "join"
                  /\ Len(joinHandle'[1].ops) = Len(f.returnedPromise)]_vars

\* C25: after restoreFromSnapshot(s) the bus reports s.options and applies
\* them: an emit keeps the history within the maxHistorySize the bus
\* reports, and a caught error goes to the onError the bus reports.
C25_RestoredOptionsApply ==
  /\ [][\A b \in BusIds :
          RestoreFromSnapshot(b) => getState(bus'[b]).options = snap[1].options]_vars
  /\ [][\A b \in BusIds :
          (EmitBegin(b, "a", 1)
            /\ Len(getHistory(bus[b])) <= getState(bus[b]).options.maxHistorySize)
            => Len(getHistory(bus'[b])) <= getState(bus'[b]).options.maxHistorySize]_vars
  /\ [][(HandlerThrows /\ stack' # <<>>)
          => Last(Head(stack').errors).to
               = getState(bus[Head(stack).b]).options.onError]_vars

\* a call made on bus b, or a step of a pass of bus b
StepOf(b) ==
  IF stack # <<>> THEN Head(stack).b = b
  ELSE \/ On(b, "a", "h1", Normal)
       \/ OnAny(b, "h1", EventFilterOptions)
       \/ Off(b, "a", "h1")
       \/ EmitBegin(b, "a", 1)
       \/ ClearHistory(b)
       \/ GetSnapshot(b)
       \/ RestoreFromSnapshot(b)

\* C26: two buses share no state.  Whatever is done to one bus, restoring
\* it from a snapshot of the other included, leaves the other bus's named
\* registry, wildcard registry, history and options as they were.
C26_BusesShareNoState ==
  [][\A b \in BusIds :
       StepOf(b) => \A x \in BusIds \ {b} :
                      /\ Observable(bus'[x]) = Observable(bus[x])
                      /\ getState(bus'[x]).options = getState(bus[x]).options]_vars

\* B has been restored from a snapshot of A, and A has recorded an event
\* since: the histories differ
C26_Witness ==
  /\ stack = <<>>
  /\ getState(bus["B"]).options.onError = CustomErrorHandler
  /\ getHistory(bus["B"]) # <<>>
  /\ getHistory(bus["A"]) # <<>>
  /\ getHistory(bus["A"]) # getHistory(bus["B"])

\* the sum of f[n] over the names in ns
RECURSIVE SumOver(_, _)
SumOver(f, ns) ==
  IF ns = {} THEN 0
  ELSE LET n == CHOOSE n \in ns : TRUE IN f[n] + SumOver(f, ns \ {n})

\* C27: the queries agree with the registry.  listenerCount(name) is the
\* number of records in the bucket of name and goes up by one with every
\* on, the same function again included; wildcardListenerCount is the
\* number of wildcard records and goes up by one with every onAny;
\* getState() reports eventCount as the number of eventNames(),
\* totalListeners as the sum of listenerCount over them and historySize as
\* the length of getHistory().
C27_QueriesAgreeWithRegistry ==
  /\ [](\A b \in BusIds :
          LET B == bus[b]
          IN /\ \A n \in Names : listenerCount(B, n) = Len(Bucket(B, n))
             /\ wildcardListenerCount(B) = Len(B.wildcardHandlers)
             /\ getState(B).eventCount = Len(eventNames(B))
             /\ getState(B).totalListeners
                  = SumOver([n \in Names |-> listenerCount(B, n)], Range(eventNames(B)))
             /\ getState(B).totalListeners
                  = Cardinality(LiveIds(B)) - wildcardListenerCount(B)
             /\ getState(B).historySize = Len(getHistory(B)))
  /\ [][\A b \in BusIds :
          /\ (On(b, "a", "h1", Normal) /\ ret'.out = "void")
               => /\ listenerCount(bus'[b], "a") = listenerCount(bus[b], "a") + 1
                  /\ getState(bus'[b]).totalListeners = getState(bus[b]).totalListeners + 1
                  /\ wildcardListenerCount(bus'[b]) = wildcardListenerCount(bus[b])
          /\ (OnAny(b, "h1", EventFilterOptions) /\ ret'.out = "void")
               => /\ wildcardListenerCount(bus'[b]) = wildcardListenerCount(bus[b]) + 1
                  /\ getState(bus'[b]).totalListeners = getState(bus[b]).totalListeners]_vars

\* one function is subscribed twice to a name of a bus that has recorded
\* an event
C27_Witness ==
  \E b \in BusIds :
    /\ listenerCount(bus[b], "a") = 2
    /\ bus[b].heap[bus[b].ref["a"]][1].handler = bus[b].heap[bus[b].ref["a"]][2].handler
    /\ getState(bus[b]).historySize > 0

\* C30: hasListeners(name) is true exactly when the bucket of name holds a
\* record or a wildcard record is registered, whatever the filter of that
\* record says about name; with no wildcard record it is true exactly
\* when listenerCount(name) > 0.
C30_HasListenersIffRecordOrWildcard ==
  \A b \in BusIds, n \in Names :
    LET B == bus[b]
    IN /\ hasListeners(B, n) <=> (Len(Bucket(B, n)) >= 1 \/ Len(B.wildcardHandlers) >= 1)
       /\ wildcardListenerCount(B) = 0 => (hasListeners(B, n) <=> listenerCount(B, n) > 0)

\* a restored bus has a bucket with no record in it and reports no listeners
\* for its name, and the other bus reports listeners for a name that the
\* filter of its only wildcard record rejects
C30_Witness ==
  \E b \in BusIds, x \in BusIds :
    /\ "a" \in Range(eventNames(bus[b]))
    /\ listenerCount(bus[b], "a") = 0
    /\ ~hasListeners(bus[b], "a")
    /\ listenerCount(bus[x], "1") = 0
    /\ wildcardListenerCount(bus[x]) = 1
    /\ ~FilterPasses(bus[x].wildcardHandlers[1], "1", 1)
    /\ hasListeners(bus[x], "1")

\* the once records a pass has invoked
OnceInvoked(f) == {f.invoked[k].id : k \in {j \in 1..Len(f.invoked) : f.invoked[j].once}}

\* C28: the pruning of an emit removes from the registry the once records
\* the pass invoked and no other record.
C28_EmitRemovesOnlyItsOnceRecords ==
  [][EmitReturn =>
       LET f == Head(stack)
       IN LiveIds(bus'[f.b]) = LiveIds(bus[f.b]) \ OnceInvoked(f)]_vars

\* the filter of the wildcard record of the pass that call id created
FilterOf(f, id) ==
  f.clonedWildcardHandlers[CHOOSE k \in 1..Len(f.clonedWildcardHandlers) :
                             f.clonedWildcardHandlers[k].id = id].filter

\* in a log of predicate calls of pass f no timestamp predicate is called,
\* and a data predicate of a filter that has an event predicate is called
\* right behind that event predicate, which accepted
ShortCircuits(f, log) ==
  \A k \in 1..Len(log) :
    /\ log[k].predicate \in {"event", "data"}
    /\ (log[k].predicate = "data" /\ FilterOf(f, log[k].id) = "both")
         => /\ k > 1
            /\ log[k - 1] = [id |-> log[k].id, predicate |-> "event"]
            /\ filterEvent(f.eventName)

\* C29: the wildcard loop calls the event predicate of a filter first; when
\* it rejects, the data predicate is not called and the handler is not
\* invoked.  The timestamp predicate is never called: a record whose filter
\* has a timestamp predicate only is invoked in every pass.
C29_EventPredicateFirst ==
  /\ [](\A x \in 1..Len(stack) :
          LET f == stack[x]
          IN /\ ShortCircuits(f, f.evaluated)
             /\ \A k \in 1..Len(f.evaluated) :
                  (f.evaluated[k].predicate = "event" /\ ~filterEvent(f.eventName))
                    => /\ f.evaluated[k].id \notin Range(Ids(f.invoked))
                       /\ \A j \in 1..Len(f.evaluated) :
                            f.evaluated[j].id = f.evaluated[k].id
                              => f.evaluated[j].predicate = "event")
  /\ [][EmitReturn =>
          LET f == Head(stack)
              log == f.evaluated
                       \o Evaluations(f, f.w, Len(f.clonedWildcardHandlers))
          IN /\ ShortCircuits(f, log)
             /\ \A k \in 1..Len(f.clonedWildcardHandlers) :
                  LET rec == f.clonedWildcardHandlers[k]
                  IN /\ rec.filter = "timestamp" => rec.id \in Range(Ids(f.invoked))
                     /\ rec.filter = "timestamp"
                          => \A j \in 1..Len(log) : log[j].id # rec.id
                     /\ (rec.filter = "both" /\ ~filterEvent(f.eventName))
                          => /\ rec.id \notin Range(Ids(f.invoked))
                             /\ \E j \in 1..Len(log) :
                                  log[j] = [id |-> rec.id, predicate |-> "event"]
                             /\ \A j \in 1..Len(log) :
                                  log[j] # [id |-> rec.id, predicate |-> "data"]]_vars

\* a pass has skipped a record whose event predicate rejected the name and
\* whose data predicate would have accepted the data, and has invoked a
\* record whose filter has a timestamp predicate only
C29_Witness ==
  /\ stack # <<>>
  /\ LET f == Head(stack)
     IN /\ ~filterEvent(f.eventName)
        /\ filterData(f.eventName, f.data)
        /\ \E k \in 1..Len(f.evaluated) :
             /\ f.evaluated[k].predicate = "event"
             /\ FilterOf(f, f.evaluated[k].id) = "both"
        /\ \E k \in 1..Len(f.invoked) : FilterOf(f, f.invoked[k].id) = "timestamp"

\* C31: clear() leaves no event name and no wildcard record and keeps the
\* history and the options; clearHistory() leaves an empty history and keeps
\* both registries and the options.
C31_ClearAndClearHistoryFrames ==
  [][/\ Clear("A")
          => /\ eventNames(bus'["A"]) = <<>>
             /\ \A n \in Names : listenerCount(bus'["A"], n) = 0
             /\ wildcardListenerCount(bus'["A"]) = 0
             /\ getHistory(bus'["A"]) = getHistory(bus["A"])
             /\ getState(bus'["A"]).options = getState(bus["A"]).options
     /\ ClearHistory("A")
          => /\ getHistory(bus'["A"]) = <<>>
             /\ eventNames(bus'["A"]) = eventNames(bus["A"])
             /\ \A n \in Names : Bucket(bus'["A"], n) = Bucket(bus["A"], n)
             /\ bus'["A"].wildcardHandlers = bus["A"].wildcardHandlers
             /\ getState(bus'["A"]).options = getState(bus["A"]).options]_vars

\* clear() has just emptied both registries of a bus with a recorded event
C31_Witness ==
  /\ ret.op = "clear"
  /\ stack = <<>>
  /\ getHistory(bus["A"]) # <<>>
  /\ snap # <<>>
  /\ snap[1].eventNames # <<>>
  /\ snap[1].wildcardListenerCount > 0
  /\ snap[1].history = <<>>

\* C32: a snapshot is a detached copy.  Nothing done to the bus after
\* getSnapshot() changes the snapshot, and an emit on a bus restored from a
\* snapshot does not change the history of the snapshot.
C32_SnapshotIsDetached ==
  [][(snap # <<>> /\ ~GetSnapshot("A")) => snap' = snap]_vars

\* a bus restored from a snapshot (its bucket is empty) has recorded an
\* event since, and the snapshot still has the shorter history
C32_Witness ==
  /\ snap # <<>>
  /\ snap[1].history # <<>>
  /\ Len(getHistory(bus["A"])) > Len(snap[1].history)
  /\ "a" \in Range(eventNames(bus["A"]))
  /\ listenerCount(bus["A"], "a") = 0

\* the buckets, name by name, and the wildcard records of a bus
Registries(B) == [buckets |-> [n \in Names |-> Bucket(B, n)],
                  wildcardHandlers |-> B.wildcardHandlers]

\* C33: an emit of a name changes no bucket of another name; the step that
\* begins a pass changes no registry; and when the registries are, at the
\* end of the pass, what they were at its start, the pass changes the
\* wildcard records not at all and the bucket of the name only by removing
\* the once records it invoked.
C33_EmitChangesOnlyItsBucket ==
  /\ [][\A n \in Names :
          EmitBegin("A", n, 1) => Registries(bus'["A"]) = Registries(bus["A"])]_vars
  /\ [][EmitReturn =>
          LET f == Head(stack)
              B == bus[f.b]
              C == bus'[f.b]
          IN /\ \A n \in Names \ {f.eventName} : Bucket(C, n) = Bucket(B, n)
             /\ (Bucket(B, f.eventName) = f.clonedHandlers
                   /\ B.wildcardHandlers = f.clonedWildcardHandlers)
                  => /\ C.wildcardHandlers = B.wildcardHandlers
                     /\ Bucket(C, f.eventName)
                          = SelectSeq(f.clonedHandlers,
                                      LAMBDA r : r.id \notin OnceInvoked(f))]_vars

\* the records the subscriptions of the bridge made
BridgeIds ==
  IF bridge = <<>> THEN {}
  ELSE {bridge[1].subscriptions[k].id : k \in 1..Len(bridge[1].subscriptions)}

\* C34: the bridges built on once (eventToPromise, waitForAny, waitForAll)
\* only ever remove their own subscriptions: in a program that never
\* unsubscribes a handler of its own, whatever is emitted and whenever the
\* timer fires, every record another subscribe call made before or after the
\* bridge stays registered, and so is invoked by the next emit.
C34_BridgesRemoveOnlyTheirOwn ==
  [][\A id \in LiveIds(bus["A"]) \ BridgeIds : id \in LiveIds(bus'["A"])]_vars

\* C35: waitForAny settles at most once, with the first of its events to be
\* emitted or with the timeout; once it has settled none of the
\* subscriptions it made is registered, and no later emit or timer changes
\* the promise, the bridge or the registries through the bridge.
C35_WaitForAnySettlesOnce ==
  /\ [](bridge # <<>> /\ bridge[1].kind = "waitForAny"
          => /\ bridge[1].settles <= 1
             /\ bridge[1].promise # "pending"
                  => /\ bridge[1].with \in Names \cup {"timeout"}
                     /\ BridgeIds \cap LiveIds(bus["A"]) = {})
  /\ [][(bridge # <<>> /\ bridge[1].kind = "waitForAny" /\ bridge[1].promise # "pending")
          => bridge' = bridge]_vars

\* the records a group subscription made on the bus
GroupIds(gs) == {gs.subscriptions[k].id : k \in 1..Len(gs.subscriptions)}

\* the group subscriptions in the list of a group
Listed(M, g) ==
  IF M.groupSubscriptions[g] = <<>> THEN {} ELSE Range(M.groupSubscriptions[g][1])

\* the step has removed the group subscriptions gone: none of their records
\* is in a bucket, none of them is in a list, and every record a direct
\* subscribe call made is where it was
GroupsGone(gone) ==
  /\ \A gs \in gone :
       /\ GroupIds(gs) \cap LiveIds(bus'["A"]) = {}
       /\ \A g \in GroupNames : gs \notin Listed(manager'[1], g)
  /\ \A hd \in handles : hd.id \in LiveIds(bus["A"]) => hd.id \in LiveIds(bus'["A"])

\* C36: after unsubscribe() of a group subscription that onGroup or
\* onceGroup returned, and after offGroup(g) or deleteGroup(g) for every
\* subscription of the group, the records the group subscription made are
\* in no bucket of the bus, the subscription is in no subscription list,
\* and the records made by direct subscribe calls on the bus are still
\* registered.
C36_GroupUnsubscribeRemovesItsOwn ==
  [][/\ \A gs \in manager[1].returned : GroupUnsubscribe(gs) => GroupsGone({gs})
     /\ \A g \in GroupNames :
          (OffGroup(g) \/ DeleteGroup(g)) => GroupsGone(Listed(manager[1], g))]_vars

\* the '@state:change' events in a history
StateChanges(history) == SelectSeq(history, LAMBDA e : e.event = "@state:change")

\* the calls setState(key, value) makes to the listeners of the key as they
\* are registered when it is called
Notifications(M, key, value) ==
  [k \in 1..Len(M.stateListeners[key]) |->
     [listener |-> M.stateListeners[key][k], key |-> key, value |-> value,
      oldValue |-> M.stateValues[key], stored |-> value,
      recorded |-> Len(M.eventHistory)]]

====
